---- MODULE Spec2Model ----
(***************************************************************************)
(* Realtime session orchestrator of the ClinicApp telehealth client        *)
(* (src/src/composables/useNavtalkRealtime.ts).  The file holds two        *)
(* dialects of the composable: the multiplexed one (one signaling socket,  *)
(* lines 804-1677), checked under Spec, and the two-socket one (a second   *)
(* "result" socket carries the media negotiation, lines 1-802), checked    *)
(* under SpecTwo.                                                          *)
(*                                                                         *)
(* Every handler is an operator from the composable's state (a record with *)
(* one field per closure variable) to its state after the handler          *)
(* returned.  An action applies one handler atomically, which is the       *)
(* granularity of the browser's event loop: a task and the microtasks it   *)
(* queues.  Each await on a network, device or media operation ends an     *)
(* action; the resumption is an action of its own.                         *)
(*                                                                         *)
(* Objects are kept up to renaming: a handle variable holds the state of   *)
(* the object it refers to, and an object that no handle refers to any     *)
(* more but that was never released is counted as an orphan.               *)
(***************************************************************************)
EXTENDS Integers, Sequences, FiniteSets, Bags, TLC

VARIABLES
    twoSocket,              \* which dialect of the composable is running
    license,                \* config.license
    isActive, isConnecting, statusMessage, errorMessage,
    isMicEnabled,
    chatMessages,           \* the transcript entries, oldest first
    socket, resultSocket,   \* readyState of the socket behind each handle
    orphanSockets,          \* sockets never closed that no handle refers to
    opensAfterClose,        \* the platform may still deliver the open event
                            \* of a socket on which close() was called
    closedConnecting,       \* realtime sockets closed while connecting
    peerConnection,         \* the peer link behind the handle
    orphanPeers,            \* links never closed that no handle refers to
    offers,                 \* handleOffer invocations suspended at an await
    configuration,          \* the ICE configuration in use
    audioContext, audioProcessor, audioStream,
    orphanCaptures,         \* capture graphs still live that no handle refers to
    pendingGUM,             \* getUserMedia promises not yet settled
    functionCallArguments, streamingResponses,
    pendingHangupReason,
    hangupTimeout,          \* the timer behind the handle
    orphanTimers,           \* armed timers that no handle refers to
    base64PCM,              \* the payload of the last audio callback
    appended,               \* the chunks that callback sent, in order
    float32Array,           \* the last input buffer of the sample encoder
    pcm16,                  \* the bytes the encoder made of it
    baseUrl,                \* config.baseUrl, as tokens
    model,                  \* config.model
    endpoint,               \* the address of the signaling socket, as tokens
    state,                  \* the intake form of intakeFormStore
    storage,                \* the form saved in localStorage, if any
    sessionMessages         \* the messages the last session.created event made the handler send

vars == << twoSocket, license, isActive, isConnecting, statusMessage,
           errorMessage, isMicEnabled, chatMessages,
           socket, resultSocket, orphanSockets,
           opensAfterClose, closedConnecting,
           peerConnection, orphanPeers, offers, configuration, audioContext,
           audioProcessor, audioStream, orphanCaptures, pendingGUM,
           functionCallArguments, streamingResponses, pendingHangupReason,
           hangupTimeout, orphanTimers,
           base64PCM,
           appended,
           float32Array,
           pcm16,
           baseUrl,
           model,
           endpoint,
           state,
           storage,
           sessionMessages >>

----------------------------------------------------------------------------
(* Bounds of the model *)

MaxOffers == 1          \* handleOffer invocations in flight
MaxPendingGUM == 2      \* device acquisitions in flight
MaxOrphans == 1         \* orphans of one kind
MaxArgLen == 1          \* tokens accumulated for one tool call
MaxTextLen == 2         \* characters accumulated for one response
MaxMessages == 1        \* transcript entries
MaxChunks == 2          \* full chunks of an audio payload
Margin == 1             \* payload lengths this close to a chunk boundary
Resolution == 4         \* finite samples are multiples of 1 / Resolution
MaxSample == 6          \* finite samples range over -MaxSample .. MaxSample
MaxSamples == 2         \* samples of an input buffer
MaxSlashes == 2         \* trailing separators of a base address
MaxFiles == 2           \* files of one selection
MaxHistory == 2         \* entries of a stored chat history
MaxArgDeltas == 3       \* deltas accumulated for one call id

NULL == "null"

(* an optional value: absent, or present with value x *)
None == << >>
Some(x) == << x >>

CallIds == {"c1"}
ResponseIds == {"r1", "r2"}

(* texts of transcripts: sequences of characters *)
Chars == {"a", "b"}

DefaultReason == "Patient requested to end the consultation."

ErrLicense == "NavTalk license key missing. Update src/navtalk.ts with your key."
ErrStart == "Unable to start conversation. Please try again."
ErrClosed == "Connection closed unexpectedly."
ErrPoints == "You need more points to complete this action."
ErrConnection == "Connection error occurred."
ErrBalance == "Account balance is insufficient. Please top up to continue."
ErrMicrophone == "Unable to access microphone. Please enable browser audio permissions."
ErrMedia == "Unable to establish media stream."
ErrGpu == "GPU resources are currently busy. Please try again later."
ErrMediaFailed == "Media connection failed. Please retry the consultation."

NoPeer == [st |-> "none", config |-> "default", local |-> FALSE]
NoTimer == [armed |-> FALSE, reason |-> NULL, stale |-> FALSE]

----------------------------------------------------------------------------
(* The closure state as one record.  fx and sent collect what a handler    *)
(* does to the outside: the operations on resources, in order, and the     *)
(* messages it sends, in order.                                            *)

Cur ==
    [ twoSocket |-> twoSocket, license |-> license,
      isActive |-> isActive, isConnecting |-> isConnecting,
      statusMessage |-> statusMessage, errorMessage |-> errorMessage,
      isMicEnabled |-> isMicEnabled,
      socket |-> socket, resultSocket |-> resultSocket,
      orphanSockets |-> orphanSockets,
      chatMessages |-> chatMessages,
      opensAfterClose |-> opensAfterClose,
      closedConnecting |-> closedConnecting,
      peerConnection |-> peerConnection, orphanPeers |-> orphanPeers,
      offers |-> offers, configuration |-> configuration,
      audioContext |-> audioContext, audioProcessor |-> audioProcessor,
      audioStream |-> audioStream, orphanCaptures |-> orphanCaptures,
      pendingGUM |-> pendingGUM,
      functionCallArguments |-> functionCallArguments,
      streamingResponses |-> streamingResponses,
      pendingHangupReason |-> pendingHangupReason,
      hangupTimeout |-> hangupTimeout, orphanTimers |-> orphanTimers,
      base64PCM |-> base64PCM,
      appended |-> appended,
      float32Array |-> float32Array,
      pcm16 |-> pcm16,
      baseUrl |-> baseUrl,
      model |-> model,
      endpoint |-> endpoint,
      state |-> state,
      storage |-> storage,
      sessionMessages |-> sessionMessages,
      fx |-> << >>, sent |-> << >>, ovf |-> FALSE ]

(* A step is taken only when it stays within the bounds of the model. *)
Commit(s) ==
    /\ ~s.ovf
    /\ twoSocket' = s.twoSocket
    /\ license' = s.license
    /\ isActive' = s.isActive
    /\ isConnecting' = s.isConnecting
    /\ statusMessage' = s.statusMessage
    /\ errorMessage' = s.errorMessage
    /\ isMicEnabled' = s.isMicEnabled
    /\ socket' = s.socket
    /\ resultSocket' = s.resultSocket
    /\ orphanSockets' = s.orphanSockets
    /\ chatMessages' = s.chatMessages
    /\ opensAfterClose' = s.opensAfterClose
    /\ closedConnecting' = s.closedConnecting
    /\ peerConnection' = s.peerConnection
    /\ orphanPeers' = s.orphanPeers
    /\ offers' = s.offers
    /\ configuration' = s.configuration
    /\ audioContext' = s.audioContext
    /\ audioProcessor' = s.audioProcessor
    /\ audioStream' = s.audioStream
    /\ orphanCaptures' = s.orphanCaptures
    /\ pendingGUM' = s.pendingGUM
    /\ functionCallArguments' = s.functionCallArguments
    /\ streamingResponses' = s.streamingResponses
    /\ pendingHangupReason' = s.pendingHangupReason
    /\ hangupTimeout' = s.hangupTimeout
    /\ orphanTimers' = s.orphanTimers
    /\ base64PCM' = s.base64PCM
    /\ appended' = s.appended
    /\ float32Array' = s.float32Array
    /\ pcm16' = s.pcm16
    /\ baseUrl' = s.baseUrl
    /\ model' = s.model
    /\ endpoint' = s.endpoint
    /\ state' = s.state
    /\ storage' = s.storage
    /\ sessionMessages' = s.sessionMessages

(* the closure variables and objects of a state record, without fx, sent *)
State(s) ==
    << s.isActive, s.isConnecting, s.statusMessage, s.errorMessage,
       s.isMicEnabled, s.socket, s.resultSocket, s.orphanSockets,
       s.peerConnection, s.orphanPeers, s.offers, s.configuration,
       s.audioContext, s.audioProcessor, s.audioStream, s.orphanCaptures,
       s.pendingGUM, s.functionCallArguments, s.streamingResponses,
       s.pendingHangupReason, s.hangupTimeout, s.orphanTimers,
       s.chatMessages, s.closedConnecting, s.base64PCM, s.appended, s.float32Array, s.pcm16, s.baseUrl, s.model, s.endpoint, s.state, s.storage, s.sessionMessages >>

Overflow(s) == [s EXCEPT !.ovf = TRUE]

Effect(s, e) == [s EXCEPT !.fx = Append(@, e)]

(* ws.send(JSON.stringify(m)) on the socket behind the handle named to *)
Send(s, to, m) == [s EXCEPT !.sent = Append(@, [to |-> to] @@ m)]

Live(st) == st \in {"connecting", "open"}

----------------------------------------------------------------------------
(* Small helpers of the composable *)

notifyError(s, message) == [s EXCEPT !.errorMessage = message]

resetStreamingStateDropsFirst(s) ==
    [s EXCEPT !.streamingResponses = [k \in DOMAIN @ \ {"r1"} |-> @[k]]]

resetStreamingState(s) ==
    [s EXCEPT !.streamingResponses = [k \in {} |-> << >>]]

(* chatMessages.value.push({ id, timestamp, ...message }) *)
appendMessage(s, role, content) ==
    IF Len(s.chatMessages) >= MaxMessages THEN Overflow(s)
    ELSE [s EXCEPT !.chatMessages =
              Append(@, [role |-> role, content |-> content])]

clearHistory(s) ==
    resetStreamingState([s EXCEPT !.chatMessages = << >>])

cleanupSocketsKeepsHandle(s) ==
    LET s1 == IF s.socket # "none"
              THEN [Effect(s, "socket.close") EXCEPT !.socket = "closed"]
              ELSE s
    IN  IF s1.resultSocket # "none"
        THEN [Effect(s1, "resultSocket.close") EXCEPT !.resultSocket = "none"]
        ELSE s1

(* onclose, onerror and onmessage are detached and close() is called: the
   object is released.  onopen stays attached; a socket closed while
   connecting is remembered where the platform may still deliver its open
   event. *)
cleanupSockets(s) ==
    LET s0 == IF s.socket = "connecting" /\ s.opensAfterClose
              THEN IF s.closedConnecting >= MaxOrphans THEN Overflow(s)
                   ELSE [s EXCEPT !.closedConnecting = @ + 1]
              ELSE s
        s1 == IF s0.socket # "none"
              THEN [Effect(s0, "socket.close") EXCEPT !.socket = "none"]
              ELSE s0
    IN  IF s1.resultSocket # "none"
        THEN [Effect(s1, "resultSocket.close") EXCEPT !.resultSocket = "none"]
        ELSE s1

(* No suspended handleOffer is the creator of the current link any more,
   nor waits for an operation on it. *)
ForgetPeer(bag) ==
    LET recs == BagToSet(bag)
        Bare(r) == [r EXCEPT !.mine = FALSE, !.on = FALSE]
        images == {Bare(r) : r \in recs}
        Sum(S) == LET RECURSIVE Go(_)
                      Go(T) == IF T = {} THEN 0
                               ELSE LET x == CHOOSE y \in T : TRUE
                                    IN  bag[x] + Go(T \ {x})
                  IN  Go(S)
    IN  [b \in images |-> Sum({r \in recs : Bare(r) = b})]

cleanupPeerConnection(s) ==
    LET s1 == IF s.peerConnection.st # "none"
              THEN [Effect(s, "peerConnection.close") EXCEPT
                        !.peerConnection = NoPeer,
                        !.offers = ForgetPeer(@)]
              ELSE s
    IN  Effect(s1, "video.reset")

cleanupAudio(s) ==
    LET s1 == IF s.audioProcessor
              THEN [Effect(s, "audioProcessor.disconnect") EXCEPT
                        !.audioProcessor = FALSE]
              ELSE s
        s2 == IF s1.audioStream
              THEN [Effect(s1, "audioStream.stop") EXCEPT !.audioStream = FALSE]
              ELSE s1
    IN  IF s2.audioContext
        THEN [Effect(s2, "audioContext.close") EXCEPT !.audioContext = FALSE]
        ELSE s2

(* if (hangupTimeout) { clearTimeout(hangupTimeout); hangupTimeout = null } *)
ClearHangupTimeout(s) ==
    IF s.hangupTimeout.armed
    THEN [Effect(s, "clearTimeout") EXCEPT !.hangupTimeout = NoTimer]
    ELSE s

(* A callback still armed when a session is torn down belongs to that      *)
(* session: it is marked, so that a later firing can be told apart.        *)
MarkStale(s) ==
    [s EXCEPT !.hangupTimeout = IF @.armed THEN [@ EXCEPT !.stale = TRUE] ELSE @,
              !.orphanTimers = {[t EXCEPT !.stale = TRUE] : t \in @}]

stopKeepsTimer(s) ==
    LET s1 == [s EXCEPT !.statusMessage = "Idle",
                        !.isConnecting = FALSE,
                        !.isActive = FALSE,
                        !.pendingHangupReason = NULL]
        s2 == IF s1.hangupTimeout.armed
              THEN [s1 EXCEPT !.orphanTimers = @ \cup {s1.hangupTimeout},
                              !.hangupTimeout = NoTimer]
              ELSE s1
        s3 == [s2 EXCEPT !.functionCallArguments = [k \in {} |-> << >>]]
    IN  MarkStale(cleanupSockets(cleanupPeerConnection(cleanupAudio(s3))))

stopClosesSocketFirst(s) ==
    LET s1 == [s EXCEPT !.statusMessage = "Idle",
                        !.isConnecting = FALSE,
                        !.isActive = FALSE,
                        !.pendingHangupReason = NULL]
        s2 == ClearHangupTimeout(s1)
        s3 == [s2 EXCEPT !.functionCallArguments = [k \in {} |-> << >>]]
    IN  MarkStale(cleanupAudio(cleanupPeerConnection(cleanupSockets(s3))))

stop(s) ==
    LET s1 == [s EXCEPT !.statusMessage = "Idle",
                        !.isConnecting = FALSE,
                        !.isActive = FALSE,
                        !.pendingHangupReason = NULL]
        s2 == ClearHangupTimeout(s1)
        s3 == [s2 EXCEPT !.functionCallArguments = [k \in {} |-> << >>]]
    IN  MarkStale(cleanupSockets(cleanupPeerConnection(cleanupAudio(s3))))

----------------------------------------------------------------------------
(* Auto-hangup *)

scheduleAutomaticHangupKeepsTimer(s, reason) ==
    [s EXCEPT !.pendingHangupReason = reason]

scheduleAutomaticHangup(s, reason) ==
    ClearHangupTimeout([s EXCEPT !.pendingHangupReason = reason])

(* hangupTimeout = setTimeout(callback, AUTO_HANGUP_DELAY_MS) *)
SetHangupTimeout(s, reason) ==
    LET s1 == IF s.hangupTimeout.armed
              THEN [s EXCEPT !.orphanTimers = @ \cup {s.hangupTimeout}]
              ELSE s
    IN  IF Cardinality(s1.orphanTimers) > MaxOrphans THEN Overflow(s1)
        ELSE [Effect(s1, "setTimeout") EXCEPT
                  !.hangupTimeout = [armed |-> TRUE, reason |-> reason,
                                     stale |-> FALSE]]

finalizeScheduledHangupRearms(s) ==
    IF s.pendingHangupReason = NULL
    THEN IF s.hangupTimeout.armed
         THEN SetHangupTimeout(ClearHangupTimeout(s), s.hangupTimeout.reason)
         ELSE s
    ELSE LET reason == s.pendingHangupReason
             s1 == ClearHangupTimeout([s EXCEPT !.pendingHangupReason = NULL])
         IN  SetHangupTimeout(s1, reason)

finalizeScheduledHangup(s) ==
    IF s.pendingHangupReason = NULL THEN s
    ELSE LET reason == s.pendingHangupReason
             s1 == ClearHangupTimeout([s EXCEPT !.pendingHangupReason = NULL])
         IN  SetHangupTimeout(s1, reason)

triggerAutomaticHangupAlways(s, reason) == stop(s)

triggerAutomaticHangup(s, reason) ==
    IF ~s.isActive THEN s ELSE stop(s)

HangupTimeoutCallbackOnlyClears(s, reason) ==
    [s EXCEPT !.hangupTimeout = NoTimer]

(* the callback finalizeScheduledHangup hands to setTimeout *)
HangupTimeoutCallback(s, reason) ==
    triggerAutomaticHangup([s EXCEPT !.hangupTimeout = NoTimer], reason)

----------------------------------------------------------------------------
(* Signaling channel *)

(* socket = new WebSocket(endpoint), in the executor of the promise
   openRealtimeSocket returns *)
openRealtimeSocket(s) ==
    LET s1 == IF Live(s.socket) THEN [s EXCEPT !.orphanSockets = @ + 1] ELSE s
    IN  IF s1.orphanSockets > MaxOrphans THEN Overflow(s1)
        ELSE [Effect(s1, "socket.new") EXCEPT !.socket = "connecting"]

(* the executor of the promise openResultSocket returns; the second
   component tells whether the promise is resolved at once *)
openResultSocket(s) ==
    IF s.resultSocket # "none" THEN << s, TRUE >>
    ELSE << [Effect(s, "resultSocket.new") EXCEPT !.resultSocket = "connecting"],
            FALSE >>

(* start() after its awaits resolved *)
StartResolved(s) ==
    [s EXCEPT !.isActive = TRUE, !.statusMessage = "Ready",
              !.isConnecting = FALSE]

StartRejectedNoTeardown(s) ==
    [notifyError(s, ErrStart) EXCEPT !.isConnecting = FALSE]

(* start() after an await rejected: the catch and finally blocks *)
StartRejected(s) ==
    [stop(notifyError(s, ErrStart)) EXCEPT !.isConnecting = FALSE]

startIgnoresConnecting(s) ==
    IF s.isActive THEN s
    ELSE IF s.license = "" THEN notifyError(s, ErrLicense)
    ELSE openRealtimeSocket(
             [resetStreamingState(s) EXCEPT !.errorMessage = "",
                                            !.statusMessage = "Connecting...",
                                            !.isConnecting = TRUE])

startSkipsLicenseCheck(s) ==
    IF s.isConnecting \/ s.isActive THEN s
    ELSE openRealtimeSocket(
             [resetStreamingState(s) EXCEPT !.errorMessage = "",
                                            !.statusMessage = "Connecting...",
                                            !.isConnecting = TRUE])

(* start() up to its first await *)
start(s) ==
    IF s.isConnecting \/ s.isActive THEN s
    ELSE IF s.license = "" THEN notifyError(s, ErrLicense)
    ELSE openRealtimeSocket(
             [resetStreamingState(s) EXCEPT !.errorMessage = "",
                                            !.statusMessage = "Connecting...",
                                            !.isConnecting = TRUE])

toggleStopsUnlessIdle(s) ==
    IF s.isActive \/ s.isConnecting THEN stop(s) ELSE start(s)

toggle(s) == IF s.isActive THEN stop(s) ELSE start(s)

(* socket.onopen of the realtime socket, and start() resumed by resolve() *)
RealtimeOnOpen(s) ==
    LET s1 == [s EXCEPT !.statusMessage = "Connected"]
    IN  IF ~s.twoSocket THEN StartResolved(s1)
        ELSE LET r == openResultSocket(s1)
             IN  IF r[2] THEN StartResolved(r[1]) ELSE r[1]

(* resultSocket.onopen, and start() resumed by resolve() *)
ResultOnOpen(s) ==
    StartResolved(IF s.resultSocket = "open"
                  THEN Send(s, "resultSocket", [type |-> "create"])
                  ELSE s)

RealtimeOnCloseReconnects(s, reason) ==
    openRealtimeSocket([stop(s) EXCEPT !.isConnecting = TRUE])

(* socket.onclose of the realtime socket *)
RealtimeOnClose(s, reason) ==
    IF s.twoSocket
    THEN stop(IF s.isActive THEN notifyError(s, ErrClosed) ELSE s)
    ELSE LET s1 == IF reason = "Insufficient points"
                   THEN notifyError(s, ErrPoints) ELSE s
         IN  IF s1.isActive THEN stop(s1) ELSE cleanupSockets(s1)

----------------------------------------------------------------------------
(* Audio pipeline *)

startRecordingIgnoresMute(s) ==
    IF s.audioContext THEN s
    ELSE IF s.pendingGUM >= MaxPendingGUM THEN Overflow(s)
    ELSE [Effect(s, "getUserMedia") EXCEPT !.pendingGUM = @ + 1]

startRecording(s) ==
    IF ~s.isMicEnabled THEN s
    ELSE IF s.audioContext THEN s
    ELSE IF s.pendingGUM >= MaxPendingGUM THEN Overflow(s)
    ELSE [Effect(s, "getUserMedia") EXCEPT !.pendingGUM = @ + 1]

(* the then-callback of getUserMedia: the handles are overwritten, and a
   capture graph they referred to stays live *)
CaptureAcquired(s) ==
    LET s1 == IF s.audioStream THEN [s EXCEPT !.orphanCaptures = @ + 1] ELSE s
    IN  IF s1.orphanCaptures > MaxOrphans THEN Overflow(s1)
        ELSE [Effect(s1, "capture.new") EXCEPT
                  !.audioContext = TRUE, !.audioStream = TRUE,
                  !.audioProcessor = TRUE]

CaptureDeniedStops(s) == stop(notifyError(s, ErrMicrophone))

(* the catch-callback of getUserMedia *)
CaptureDenied(s) == notifyError(s, ErrMicrophone)

(* A Float32Array element: a finite value num / Resolution, an infinity,
   or NaN. *)
Finite(n) == [kind |-> "finite", num |-> n]
Samples ==
    {Finite(n) : n \in -MaxSample .. MaxSample}
    \cup {[kind |-> k, num |-> 0] : k \in {"NaN", "Infinity", "-Infinity"}}

(* Math.max(-1, Math.min(1, x)): NaN stays NaN *)
Clamp(x) ==
    CASE x.kind = "NaN" -> x
      [] x.kind = "Infinity" -> Finite(Resolution)
      [] x.kind = "-Infinity" -> Finite(-Resolution)
      [] OTHER -> Finite(IF x.num > Resolution THEN Resolution
                         ELSE IF x.num < -Resolution THEN -Resolution
                         ELSE x.num)

(* s < 0 ? s * 0x8000 : s * 0x7fff, as num / Resolution; NaN stays NaN *)
ScalePositiveBy32768(s) ==
    IF s.kind = "NaN" THEN s ELSE Finite(s.num * 32768)

Scale(s) ==
    IF s.kind = "NaN" THEN s
    ELSE IF s.num < 0 THEN Finite(s.num * 32768) ELSE Finite(s.num * 32767)

(* DataView.setInt16's conversion: NaN becomes 0, the fraction is dropped
   toward zero, and the result is taken modulo 2^16 *)
ToInt16(v) ==
    IF v.kind = "NaN" THEN 0
    ELSE LET int == IF v.num < 0 THEN -((-v.num) \div Resolution)
                    ELSE v.num \div Resolution
         IN  int % 65536

(* view.setInt16(offset, value, true): low byte first *)
LittleEndian(u) == << u % 256, u \div 256 >>

RECURSIVE floatTo16BitPCM(_)
floatTo16BitPCM(buffer) ==
    IF buffer = << >> THEN << >>
    ELSE LittleEndian(ToInt16(Scale(Clamp(Head(buffer)))))
         \o floatTo16BitPCM(Tail(buffer))

(* const chunkSize = 4096 *)
chunkSize == 4096

(* createScriptProcessor(8192, 1, 1): samples of one input buffer *)
bufferSize == 8192

(* characters of the base64 text of one buffer of 16-bit samples *)
FrameLength == 4 * ((2 * bufferSize + 2) \div 3)

Min(a, b) == IF a < b THEN a ELSE b

(* base64PCM.slice(from, to), from and to counted from 0 *)
Slice(txt, from, to) == SubSeq(txt, from + 1, Min(to, Len(txt)))

sendChunksKeepsOffset(s, base64, i) ==
    LET chunks == [k \in 1 .. (Len(base64) + chunkSize - 1) \div chunkSize |->
                      Slice(base64, (k - 1) * chunkSize + 1, k * chunkSize + 1)]
        RECURSIVE Go(_, _)
        Go(st, k) == IF k > Len(chunks) THEN st
                     ELSE Go(Send(st, "socket",
                                  [type |-> "input_audio_buffer.append",
                                   audio |-> chunks[k]]), k + 1)
    IN  Go(s, 1)

(* for (let i = 0; i < base64PCM.length; i += chunkSize) socket.send(...) *)
RECURSIVE sendChunks(_, _, _)
sendChunks(s, base64, i) ==
    IF i >= Len(base64) THEN s
    ELSE sendChunks(Send(s, "socket",
                         [type |-> "input_audio_buffer.append",
                          audio |-> Slice(base64, i, i + chunkSize)]),
                    base64, i + chunkSize)

(* audioProcessor.onaudioprocess, from the encoded buffer on; the payload
   and the chunks sent are kept for the record *)
onaudioprocess(s, base64) ==
    IF s.socket # "open"
    THEN [s EXCEPT !.base64PCM = base64, !.appended = << >>]
    ELSE LET r == sendChunks(s, base64, 0)
         IN  [r EXCEPT !.base64PCM = base64,
                       !.appended = [k \in 1 .. Len(r.sent) |-> r.sent[k].audio]]

enableMicrophone(s) ==
    IF s.isMicEnabled THEN s
    ELSE LET s1 == [s EXCEPT !.isMicEnabled = TRUE]
         IN  IF s1.isActive /\ ~s1.audioContext THEN startRecording(s1) ELSE s1

disableMicrophoneStops(s) ==
    IF ~s.isMicEnabled THEN s
    ELSE stop([s EXCEPT !.isMicEnabled = FALSE])

disableMicrophone(s) ==
    IF ~s.isMicEnabled THEN s
    ELSE cleanupAudio([s EXCEPT !.isMicEnabled = FALSE])

toggleMicrophone(s) ==
    IF s.isMicEnabled THEN disableMicrophone(s) ELSE enableMicrophone(s)

----------------------------------------------------------------------------
(* Texts of tool-call arguments: sequences of tokens, a token standing for *)
(* a run of characters.                                                    *)

ValidArgs == << "{", "\"reason\":", "\"bye\"", "}" >>
Whitespace == {" "}
StringLiterals == {"\"bye\"", "\"  \""}
LiteralValue(tok) == IF tok = "\"bye\"" THEN "bye" ELSE "  "

RECURSIVE StripWhitespace(_)
StripWhitespace(txt) ==
    IF txt = << >> THEN << >>
    ELSE IF Head(txt) \in Whitespace THEN StripWhitespace(Tail(txt))
         ELSE << Head(txt) >> \o StripWhitespace(Tail(txt))

(* String.prototype.trim() of a string value *)
Trim(v) == IF v = "  " THEN "" ELSE v

(* Addresses are sequences of tokens: a blank, a scheme with its "://", a
   host, the separator "/", a path without its leading separator, and the
   pieces of a query string. *)
Host == "transfer.navtalk.ai"
characterName == "navtalk.Emily"
Schemes == {"ws://", "wss://", "http://", "https://", "WSS://"}

(* the scheme in lower case, as the URL parser stores it *)
Lower(scheme) == IF scheme = "WSS://" THEN "wss://" ELSE scheme

RECURSIVE DropLeading(_, _)
DropLeading(txt, toks) ==
    IF txt # << >> /\ Head(txt) \in toks THEN DropLeading(Tail(txt), toks)
    ELSE txt

RECURSIVE DropTrailing(_, _)
DropTrailing(txt, toks) ==
    IF txt # << >> /\ txt[Len(txt)] \in toks
    THEN DropTrailing(SubSeq(txt, 1, Len(txt) - 1), toks)
    ELSE txt

(* encodeURIComponent and the query serializer, on values made of
   letters, digits and dots only *)
UrlEncode(v) == v

(* new URL('/wss/v2/realtime-chat', base).toString() with the search
   parameters set: the scheme and host of the base, the path replaced *)
UrlToString(base, params) ==
    << Lower(base[1]), base[2], "/", "wss/v2/realtime-chat" >> \o params

buildRealtimeEndpointForcesWss(s) ==
    LET trimmedBase == DropTrailing(
                           DropTrailing(DropLeading(s.baseUrl, Whitespace),
                                        Whitespace), {"/"})
        normalizedBase == IF Head(trimmedBase) \in Schemes
                          THEN << "wss://" >> \o Tail(trimmedBase)
                          ELSE << "wss://" >> \o trimmedBase
        params == << "?", "license=", UrlEncode(s.license),
                     "&", "name=", UrlEncode(characterName) >>
                  \o (IF s.model # "undefined" /\ Trim(s.model) # ""
                      THEN << "&", "model=", UrlEncode(Trim(s.model)) >>
                      ELSE << >>)
    IN  UrlToString(normalizedBase, params)

buildRealtimeEndpoint(s) ==
    LET trimmedBase == DropTrailing(
                           DropTrailing(DropLeading(s.baseUrl, Whitespace),
                                        Whitespace), {"/"})
        normalizedBase == IF Head(trimmedBase) \in Schemes
                          THEN trimmedBase
                          ELSE << "wss://" >> \o trimmedBase
        params == << "?", "license=", UrlEncode(s.license),
                     "&", "name=", UrlEncode(characterName) >>
                  \o (IF s.model # "undefined" /\ Trim(s.model) # ""
                      THEN << "&", "model=", UrlEncode(Trim(s.model)) >>
                      ELSE << >>)
    IN  UrlToString(normalizedBase, params)

(* the two-socket dialect's template:
   `wss://${baseUrl}/api/realtime-api?license=...&characterName=...` *)
realtimeApiEndpoint(s) ==
    << "wss://" >> \o s.baseUrl
    \o << "/", "api/realtime-api", "?", "license=", UrlEncode(s.license),
          "&", "characterName=", UrlEncode(characterName) >>

(* JSON.parse of an argument text: ok, and the reason member (NULL when   *)
(* the object has none).  Any text that is not an object throws.          *)
JSONParse(txt) ==
    LET body == StripWhitespace(txt)
    IN  IF body = << "{", "}" >>
        THEN [ok |-> TRUE, reason |-> NULL]
        ELSE IF /\ Len(body) = 4
                /\ body[1] = "{" /\ body[2] = "\"reason\":"
                /\ body[3] \in StringLiterals /\ body[4] = "}"
             THEN [ok |-> TRUE, reason |-> LiteralValue(body[3])]
             ELSE [ok |-> FALSE, reason |-> NULL]

----------------------------------------------------------------------------
(* Protocol event dispatcher *)

requestAssistantResponse(s) ==
    IF s.socket # "open" THEN s
    ELSE Send(s, "socket", [type |-> "response.create"])

sendFunctionCallResult(s, callId, result) ==
    IF s.socket # "open" THEN s
    ELSE requestAssistantResponse(
             Send(s, "socket", [type |-> "conversation.item.create",
                                call_id |-> callId, output |-> result]))

handleHangupIntentEchoesDefault(s, reasonArg, callId) ==
    LET s1 == scheduleAutomaticHangup(s, DefaultReason)
    IN  IF callId # NULL
        THEN sendFunctionCallResult(s1, callId,
                 [action |-> "auto_hangup", status |-> "scheduled",
                  reason |-> DefaultReason])
        ELSE s1

handleHangupIntent(s, reasonArg, callId) ==
    LET rawReason == IF reasonArg # NULL THEN Trim(reasonArg) ELSE ""
        reason == IF rawReason # "" THEN rawReason ELSE DefaultReason
        s1 == scheduleAutomaticHangup(s, reason)
    IN  IF callId # NULL
        THEN sendFunctionCallResult(s1, callId,
                 [action |-> "auto_hangup", status |-> "scheduled",
                  reason |-> reason])
        ELSE s1

(* arguments is the optional argument text *)
handleFunctionCall(s, name, callId, arguments) ==
    LET parsed == IF arguments # None /\ StripWhitespace(arguments[1]) # << >>
                  THEN JSONParse(arguments[1])
                  ELSE [ok |-> FALSE, reason |-> NULL]
        reasonArg == IF parsed.ok THEN parsed.reason ELSE NULL
    IN  IF name = "end_conversation"
        THEN handleHangupIntent(s, reasonArg, callId)
        ELSE IF callId # NULL
             THEN sendFunctionCallResult(s, callId, [status |-> "ignored"])
             ELSE s

(* case CONNECTED_SUCCESS *)
OnConnectedSuccess(s, hasServers) ==
    [s EXCEPT !.configuration = IF hasServers THEN "learned" ELSE @,
              !.statusMessage = "Connected"]

(* case CONNECTED_FAIL, CONNECTED_CLOSE *)
OnConnectedFail(s, message) ==
    LET s1 == notifyError(s, IF message # NULL THEN message ELSE ErrConnection)
    IN  IF s1.isActive THEN stop(s1) ELSE s1

OnInsufficientBalanceStops(s, message) ==
    LET s1 == notifyError(s, IF message # NULL THEN message ELSE ErrBalance)
    IN  IF s1.isActive THEN stop(s1) ELSE s1

(* case INSUFFICIENT_BALANCE *)
OnInsufficientBalance(s, message) ==
    notifyError(s, IF message # NULL THEN message ELSE ErrBalance)

(* message.content?.trim() *)
TrimText(txt) == DropTrailing(DropLeading(txt, Whitespace), Whitespace)

(* chatMessages.value.forEach(...) of sendSessionUpdate *)
RECURSIVE replayHistory(_, _)
replayHistory(s, messages) ==
    IF messages = << >> THEN s
    ELSE LET message == Head(messages)
             text == TrimText(message.content)
         IN  IF message.role # "user" \/ text = << >>
             THEN replayHistory(s, Tail(messages))
             ELSE replayHistory(
                      Send(s, "socket",
                           [type |-> "conversation.item.create",
                            role |-> "user", text |-> text]),
                      Tail(messages))

(* the two-socket dialect sends the configuration only *)
sendSessionUpdate(s) ==
    IF s.socket # "open" THEN s
    ELSE LET s1 == Send(s, "socket", [type |-> "session.update"])
         IN  IF s.twoSocket THEN s1 ELSE replayHistory(s1, s.chatMessages)

(* session.created; the messages sent are kept for the record *)
OnSessionCreated(s) ==
    LET r == sendSessionUpdate(s)
    IN  [r EXCEPT !.sessionMessages = r.sent]

(* case REALTIME_SESSION_UPDATED *)
OnSessionUpdated(s) ==
    startRecording(requestAssistantResponse([s EXCEPT !.statusMessage = "Ready"]))

(* case REALTIME_SPEECH_STARTED *)
OnSpeechStarted(s) ==
    resetStreamingState([s EXCEPT !.statusMessage = "Patient speaking"])

(* streamingResponses[responseId] || '' *)
Accumulated(s, responseId) ==
    IF responseId \in DOMAIN s.streamingResponses
    THEN s.streamingResponses[responseId] ELSE << >>

OnTranscriptDeltaOverwrites(s, responseId, delta) ==
    IF responseId = NULL \/ delta = None THEN s
    ELSE [s EXCEPT !.streamingResponses =
                       [k \in DOMAIN @ \cup {responseId} |->
                           IF k = responseId THEN delta[1] ELSE @[k]],
                   !.statusMessage = "Responding"]

(* case REALTIME_RESPONSE_AUDIO_TRANSCRIPT_DELTA; delta is the optional
   text of the event *)
OnTranscriptDelta(s, responseId, delta) ==
    IF responseId = NULL \/ delta = None THEN s
    ELSE LET old == Accumulated(s, responseId)
         IN  [s EXCEPT !.streamingResponses =
                           [k \in DOMAIN @ \cup {responseId} |->
                               IF k = responseId THEN old \o delta[1] ELSE @[k]],
                       !.statusMessage = "Responding"]

(* case REALTIME_RESPONSE_AUDIO_TRANSCRIPT_DONE; transcript is the optional
   text of the event *)
OnTranscriptDone(s, responseId, transcript) ==
    IF responseId = NULL THEN s
    ELSE LET content == IF transcript # None THEN transcript[1]
                        ELSE Accumulated(s, responseId)
             s1 == IF content # << >>
                   THEN appendMessage(s, "assistant", content) ELSE s
         IN  [s1 EXCEPT !.streamingResponses =
                            [k \in DOMAIN @ \ {responseId} |-> @[k]],
                        !.statusMessage = "Listening"]

OnAudioDoneArmsAlways(s) ==
    SetHangupTimeout(ClearHangupTimeout(
        [s EXCEPT !.statusMessage = "Listening", !.pendingHangupReason = NULL]),
        DefaultReason)

(* case REALTIME_RESPONSE_AUDIO_DONE *)
OnAudioDone(s) ==
    finalizeScheduledHangup([s EXCEPT !.statusMessage = "Listening"])

(* case REALTIME_RESPONSE_FUNCTION_CALL_ARGUMENTS_DELTA *)
OnFunctionCallArgumentsDelta(s, callId, delta) ==
    IF callId = NULL \/ delta = None THEN s
    ELSE LET old == IF callId \in DOMAIN s.functionCallArguments
                    THEN s.functionCallArguments[callId] ELSE << >>
         IN  [s EXCEPT !.functionCallArguments =
                  [k \in DOMAIN @ \cup {callId} |->
                      IF k = callId THEN old \o delta[1] ELSE @[k]]]

OnFunctionCallArgumentsDonePrefersAccumulated(s, name, callId, arguments) ==
    LET acc == s.functionCallArguments
        args == IF callId # NULL /\ callId \in DOMAIN acc
                THEN Some(acc[callId]) ELSE arguments
        s1 == IF callId # NULL
              THEN [s EXCEPT !.functionCallArguments =
                        [k \in DOMAIN @ \ {callId} |-> @[k]]]
              ELSE s
        s2 == handleFunctionCall(s1, name, callId, args)
    IN  IF s.twoSocket THEN s2 ELSE [s2 EXCEPT !.statusMessage = "Listening"]

(* case REALTIME_RESPONSE_FUNCTION_CALL_ARGUMENTS_DONE *)
OnFunctionCallArgumentsDone(s, name, callId, arguments) ==
    LET acc == s.functionCallArguments
        args == IF arguments # None THEN arguments
                ELSE IF callId # NULL /\ callId \in DOMAIN acc
                     THEN Some(acc[callId]) ELSE None
        s1 == IF callId # NULL
              THEN [s EXCEPT !.functionCallArguments =
                        [k \in DOMAIN @ \ {callId} |-> @[k]]]
              ELSE s
        s2 == handleFunctionCall(s1, name, callId, args)
    IN  IF s.twoSocket THEN s2 ELSE [s2 EXCEPT !.statusMessage = "Listening"]

----------------------------------------------------------------------------
(* Media negotiator: handleOffer, one operator per stretch between awaits. *)
(* A suspended invocation is a record: the await it is suspended at,       *)
(* whether the current link is the one it created, and whether the         *)
(* operation it awaits was invoked on the current link.                    *)

Fetching == [stage |-> "fetch", mine |-> FALSE, on |-> FALSE]

AddOffer(s, r) == [s EXCEPT !.offers = @ (+) SetToBag({r})]
EndOffer(s, r) == [s EXCEPT !.offers = @ (-) SetToBag({r})]

(* the catch block of handleOffer *)
OfferFailed(s, r) == EndOffer(notifyError(s, ErrMedia), r)

(* handleOffer up to the await of fetch *)
handleOffer(s) ==
    IF BagCardinality(s.offers) >= MaxOffers THEN Overflow(s)
    ELSE AddOffer(Effect(s, "fetch"), Fetching)

(* peerConnection = new RTCPeerConnection(configuration) *)
NewPeerConnection(s) ==
    LET s1 == IF s.peerConnection.st # "none"
              THEN [s EXCEPT !.orphanPeers = @ + 1, !.offers = ForgetPeer(@)]
              ELSE s
    IN  IF s1.orphanPeers > MaxOrphans THEN Overflow(s1)
        ELSE [Effect(s1, "peerConnection.new") EXCEPT
                  !.peerConnection = [st |-> "live", config |-> s1.configuration,
                                      local |-> FALSE]]

(* from the fetch settling to the await of setRemoteDescription *)
OfferAfterFetch(s, r, result) ==
    LET s1 == IF result = "servers"
              THEN [s EXCEPT !.configuration = "fetched"] ELSE s
    IN  AddOffer(NewPeerConnection(cleanupPeerConnection(EndOffer(s1, r))),
                 [stage |-> "remote", mine |-> TRUE, on |-> TRUE])

(* from setRemoteDescription settling to the await of createAnswer *)
OfferAfterSetRemote(s, r, ok) ==
    IF ~ok \/ s.peerConnection.st = "none" THEN OfferFailed(s, r)
    ELSE AddOffer(EndOffer(s, r), [r EXCEPT !.stage = "answer", !.on = TRUE])

(* from createAnswer settling to the await of setLocalDescription *)
OfferAfterCreateAnswer(s, r, ok) ==
    IF ~ok \/ s.peerConnection.st = "none" THEN OfferFailed(s, r)
    ELSE AddOffer(EndOffer(s, r), [r EXCEPT !.stage = "local", !.on = TRUE])

sendAnswerMessage(s, hasSdp) ==
    IF s.socket = "none" \/ ~hasSdp THEN [threw |-> FALSE, s |-> s]
    ELSE IF s.socket = "connecting" THEN [threw |-> TRUE, s |-> s]
    ELSE IF s.socket = "open"
         THEN [threw |-> FALSE,
               s |-> Send(s, "socket", [type |-> "webrtc.signaling.answer"])]
         ELSE [threw |-> FALSE, s |-> s]

(* from setLocalDescription settling to the end of handleOffer *)
OfferAfterSetLocal(s, r, ok) ==
    IF ~ok THEN OfferFailed(s, r)
    ELSE LET s1 == IF r.on THEN [s EXCEPT !.peerConnection.local = TRUE] ELSE s
         IN  IF s1.peerConnection.st = "none" THEN OfferFailed(s1, r)
             ELSE IF s1.twoSocket
                  THEN IF s1.resultSocket = "open"
                       THEN EndOffer(Send(s1, "resultSocket", [type |-> "answer"]), r)
                       ELSE EndOffer(s1, r)
                  ELSE LET a == sendAnswerMessage(s1, s1.peerConnection.local)
                       IN  IF a.threw THEN OfferFailed(a.s, r) ELSE EndOffer(a.s, r)

(* a rejection of setRemoteDescription is logged only *)
handleAnswer(s, hasSdp) ==
    IF s.peerConnection.st = "none" \/ ~hasSdp THEN s
    ELSE Effect(s, "peerConnection.setRemoteDescription")

handleIceCandidateCreatesLink(s, hasCandidate) ==
    IF ~hasCandidate THEN s
    ELSE Effect(IF s.peerConnection.st = "none" THEN NewPeerConnection(s) ELSE s,
                "peerConnection.addIceCandidate")

(* a rejection of addIceCandidate is logged only *)
handleIceCandidate(s, hasCandidate) ==
    IF s.peerConnection.st = "none" \/ ~hasCandidate THEN s
    ELSE Effect(s, "peerConnection.addIceCandidate")

onconnectionstatechangeStops(s, connectionState) ==
    IF s.peerConnection.st = "none" THEN s
    ELSE IF connectionState = "connected"
         THEN [s EXCEPT !.statusMessage = "Ready"]
    ELSE IF connectionState = "failed"
         THEN stop(notifyError(s, ErrMediaFailed))
    ELSE s

(* peerConnection.onconnectionstatechange, with the state the link is in *)
onconnectionstatechange(s, connectionState) ==
    IF s.peerConnection.st = "none" THEN s
    ELSE IF connectionState = "connected"
         THEN [s EXCEPT !.statusMessage = "Ready"]
    ELSE IF connectionState = "failed"
         THEN notifyError(s, ErrMediaFailed)
    ELSE s

(* The discriminants the switch of handleRealtimeEvent has a case for. *)
Recognized ==
    {"conversation.connected.success", "conversation.connected.fail",
     "conversation.connected.close",
     "conversation.connected.insufficient_balance",
     "realtime.session.created", "realtime.session.updated",
     "webrtc.signaling.offer", "webrtc.signaling.answer",
     "webrtc.signaling.iceCandidate",
     "realtime.input_audio_buffer.speech_started",
     "realtime.input_audio_buffer.speech_stopped",
     "realtime.conversation.item.input_audio_transcription.completed",
     "realtime.response.audio_transcript.delta",
     "realtime.response.audio_transcript.done",
     "realtime.response.audio.done",
     "realtime.response.function_call_arguments.delta",
     "realtime.response.function_call_arguments.done",
     "response.done", "session.gpu_full", "session.insufficient_balance",
     "error"}

(* Discriminants of the protocol the switch has no case for, and one the
   protocol does not know. *)
Unrecognized ==
    {"realtime.response.audio.delta", "realtime.input_text", "unknown",
     "realtime.session.closed"}

handleRealtimeEventDefaultFails(s, type) ==
    IF type = NULL THEN s
    ELSE IF type \notin Recognized THEN OnConnectedFail(s, NULL)
    ELSE s

(* handleRealtimeEvent for an event without payload; type is NULL when the
   event has no string type *)
handleRealtimeEvent(s, type) ==
    IF type = NULL THEN s
    ELSE CASE type = "conversation.connected.success" ->
                OnConnectedSuccess(s, FALSE)
           [] type \in {"conversation.connected.fail",
                        "conversation.connected.close"} ->
                OnConnectedFail(s, NULL)
           [] type = "conversation.connected.insufficient_balance" ->
                OnInsufficientBalance(s, NULL)
           [] type = "realtime.session.created" -> OnSessionCreated(s)
           [] type = "realtime.session.updated" -> OnSessionUpdated(s)
           [] type = "webrtc.signaling.offer" -> handleOffer(s)
           [] type = "webrtc.signaling.answer" -> handleAnswer(s, FALSE)
           [] type = "webrtc.signaling.iceCandidate" ->
                handleIceCandidate(s, FALSE)
           [] type = "realtime.input_audio_buffer.speech_started" ->
                OnSpeechStarted(s)
           [] type = "realtime.input_audio_buffer.speech_stopped" ->
                [s EXCEPT !.statusMessage = "Processing response"]
           [] type = "realtime.conversation.item.input_audio_transcription.completed" ->
                s
           [] type = "realtime.response.audio_transcript.delta" ->
                OnTranscriptDelta(s, NULL, None)
           [] type = "realtime.response.audio_transcript.done" ->
                OnTranscriptDone(s, NULL, None)
           [] type = "realtime.response.audio.done" -> OnAudioDone(s)
           [] type = "realtime.response.function_call_arguments.delta" ->
                OnFunctionCallArgumentsDelta(s, NULL, None)
           [] type = "realtime.response.function_call_arguments.done" ->
                OnFunctionCallArgumentsDone(s, NULL, NULL, None)
           [] type = "response.done" -> [s EXCEPT !.statusMessage = "Ready"]
           [] type = "session.gpu_full" -> notifyError(s, ErrGpu)
           [] type = "session.insufficient_balance" -> notifyError(s, ErrBalance)
           [] OTHER -> s

----------------------------------------------------------------------------
(* Initial state: the composable right after useNavtalkRealtime() returned *)

InitWith(history) ==
    /\ license \in {"", "lic"}
    /\ isActive = FALSE
    /\ isConnecting = FALSE
    /\ statusMessage = "Idle"
    /\ errorMessage = ""
    /\ isMicEnabled = TRUE
    /\ socket = "none"
    /\ resultSocket = "none"
    /\ orphanSockets = 0
    /\ closedConnecting = 0
    /\ chatMessages = history
    /\ peerConnection = NoPeer
    /\ orphanPeers = 0
    /\ offers = EmptyBag
    /\ configuration = "default"
    /\ audioContext = FALSE
    /\ audioProcessor = FALSE
    /\ audioStream = FALSE
    /\ orphanCaptures = 0
    /\ pendingGUM = 0
    /\ functionCallArguments = [k \in {} |-> << >>]
    /\ streamingResponses = [k \in {} |-> << >>]
    /\ pendingHangupReason = NULL
    /\ hangupTimeout = NoTimer
    /\ orphanTimers = {}
    /\ base64PCM = << >>
    /\ appended = << >>
    /\ float32Array = << >>
    /\ pcm16 = << >>
    /\ baseUrl = << "transfer.navtalk.ai" >>
    /\ model = "undefined"
    /\ endpoint = << >>
    /\ state = [basicInfo |-> [fullName |-> ""], diagnostics |-> [recentTests |-> "", attachments |-> << >>]]
    /\ storage = << >>
    /\ sessionMessages = << >>

(* loadChatHistory() with nothing stored *)
InitCommon == InitWith(<< >>)

Init == twoSocket = FALSE /\ opensAfterClose = FALSE /\ InitCommon

InitTwo == twoSocket = TRUE /\ opensAfterClose = FALSE /\ InitCommon

InitLateOpen == twoSocket = FALSE /\ opensAfterClose = TRUE /\ InitCommon

----------------------------------------------------------------------------
(* Calls of the user interface *)

Start == Commit(start(Cur))

Stop == Commit(stop(Cur))

Toggle == Commit(toggle(Cur))

ToggleMicrophone == Commit(toggleMicrophone(Cur))

ClearHistory == Commit(clearHistory(Cur))

----------------------------------------------------------------------------
(* Events of the sockets *)

(* the open event of the connecting realtime socket *)
SocketOpens ==
    /\ socket = "connecting"
    /\ Commit(RealtimeOnOpen([Cur EXCEPT !.socket = "open"]))

(* the open event of the connecting result socket *)
ResultSocketOpens ==
    /\ resultSocket = "connecting"
    /\ Commit(ResultOnOpen([Cur EXCEPT !.resultSocket = "open"]))

(* The connecting realtime socket fails: its error event rejects the
   promise start() awaits, and its close event follows when the handler is
   still attached. *)
SocketFails ==
    /\ socket = "connecting"
    /\ LET s1 == StartRejected([Cur EXCEPT !.socket = "closed"])
       IN  Commit(IF s1.socket = "none" THEN s1 ELSE RealtimeOnClose(s1, ""))

(* The connecting result socket fails; its onclose handler only logs. *)
ResultSocketFails ==
    /\ resultSocket = "connecting"
    /\ Commit(StartRejected([Cur EXCEPT !.resultSocket = "closed"]))

(* The open event of a realtime socket that cleanupSockets closed while it
   was connecting is delivered: onopen is still attached, and the start()
   that awaits the socket resumes. *)
ClosedSocketOpens ==
    /\ closedConnecting > 0
    /\ Commit(RealtimeOnOpen([Cur EXCEPT !.closedConnecting = @ - 1]))

(* The open realtime socket is closed by the remote end or the network; an
   error event before the close event settles nothing, the promise is
   resolved. *)
SocketCloses ==
    /\ socket = "open"
    /\ \E reason \in {"", "Insufficient points"} :
           Commit(RealtimeOnClose([Cur EXCEPT !.socket = "closed"], reason))

(* The open result socket is closed; its onclose handler only logs. *)
ResultSocketCloses ==
    /\ resultSocket = "open"
    /\ Commit([Cur EXCEPT !.resultSocket = "closed"])

(* the realtime socket delivers a message *)
Receives == socket = "open"

ConnectedFail ==
    /\ Receives
    /\ Commit(OnConnectedFail(Cur, NULL))

SessionCreated ==
    /\ Receives
    /\ Commit(OnSessionCreated(Cur))

(* payload.message of a server notice, when it has one *)
Notices == {NULL, "Service unavailable."}

InsufficientBalance ==
    /\ Receives
    /\ \E message \in Notices : Commit(OnInsufficientBalance(Cur, message))

(* socket.onmessage with a message that parses to an event without
   payload *)
Event ==
    /\ Receives
    /\ \E type \in Recognized \cup Unrecognized \cup {NULL} :
           Commit(handleRealtimeEvent(Cur, type))

SessionUpdated ==
    /\ Receives
    /\ Commit(OnSessionUpdated(Cur))

AudioDone ==
    /\ Receives
    /\ Commit(OnAudioDone(Cur))

FunctionCallArgumentsDelta ==
    /\ Receives
    /\ \E callId \in CallIds :
           /\ callId \in DOMAIN functionCallArguments =>
                  Len(functionCallArguments[callId]) < MaxArgLen
           /\ Commit(OnFunctionCallArgumentsDelta(Cur, callId, Some(<< "{" >>)))

(* the halves an argument text is streamed in *)
ArgDeltas ==
    {<< "{", "\"reason\":" >>, << "\"bye\"", "}" >>, << "\"  \"", "}" >>}

(* an argument text is streamed in halves *)
FunctionCallArgumentsStreamed ==
    /\ Receives
    /\ \E callId \in CallIds, delta \in ArgDeltas :
           /\ callId \in DOMAIN functionCallArguments =>
                  Len(functionCallArguments[callId]) < 2 * MaxArgDeltas
           /\ Commit(OnFunctionCallArgumentsDelta(Cur, callId, Some(delta)))

FunctionCallArgumentsDone ==
    /\ Receives
    /\ \E name \in {"end_conversation", "lookup"}, callId \in CallIds \cup {NULL},
          arguments \in {None, Some(ValidArgs)} :
           Commit(OnFunctionCallArgumentsDone(Cur, name, callId, arguments))

SpeechStarted ==
    /\ Receives
    /\ Commit(OnSpeechStarted(Cur))

TranscriptDelta ==
    /\ Receives
    /\ \E responseId \in ResponseIds \cup {NULL},
          delta \in {None, Some(<< >>)} \cup {Some(<< c >>) : c \in Chars} :
           /\ responseId # NULL /\ delta # None =>
                  Len(Accumulated(Cur, responseId)) + Len(delta[1]) <= MaxTextLen
           /\ Commit(OnTranscriptDelta(Cur, responseId, delta))

TranscriptDone ==
    /\ Receives
    /\ \E responseId \in ResponseIds \cup {NULL},
          transcript \in {None, Some(<< >>), Some(<< "b" >>)} :
           Commit(OnTranscriptDone(Cur, responseId, transcript))

(* an offer arrives, on the socket that carries the negotiation *)
Offer ==
    /\ IF twoSocket THEN resultSocket = "open" ELSE socket = "open"
    /\ Commit(handleOffer(Cur))

Answer ==
    /\ Receives
    /\ \E hasSdp \in BOOLEAN : Commit(handleAnswer(Cur, hasSdp))

IceCandidate ==
    /\ Receives
    /\ \E hasCandidate \in BOOLEAN : Commit(handleIceCandidate(Cur, hasCandidate))

(* the link whose handlers are attached changes its connection state *)
ConnectionStateChanges ==
    /\ peerConnection.st = "live"
    /\ \E connectionState \in {"connecting", "connected", "disconnected", "failed"} :
           Commit(onconnectionstatechange(Cur, connectionState))

----------------------------------------------------------------------------
(* Completions of asynchronous steps, and the timer *)

Suspended(stage) == {r \in BagToSet(offers) : r.stage = stage}

OfferFetchSettles ==
    \E r \in Suspended("fetch"), result \in {"servers", "empty", "failed"} :
        Commit(OfferAfterFetch(Cur, r, result))

OfferSetRemoteSettles ==
    \E r \in Suspended("remote"), ok \in BOOLEAN :
        Commit(OfferAfterSetRemote(Cur, r, ok))

OfferCreateAnswerSettles ==
    \E r \in Suspended("answer"), ok \in BOOLEAN :
        Commit(OfferAfterCreateAnswer(Cur, r, ok))

OfferSetLocalSettles ==
    \E r \in Suspended("local"), ok \in BOOLEAN :
        Commit(OfferAfterSetLocal(Cur, r, ok))

GetUserMediaResolves ==
    /\ pendingGUM > 0
    /\ Commit(CaptureAcquired([Cur EXCEPT !.pendingGUM = @ - 1]))

(* The intake form: two of its sections, one text field each, and the
   attachment list. *)
defaultState ==
    [basicInfo |-> [fullName |-> ""],
     diagnostics |-> [recentTests |-> "", attachments |-> << >>]]

(* Array.isArray(value) and typeof value === 'object', by the form's schema *)
IsArray(key) == key = "attachments"
IsObject(key) == key \in {"basicInfo", "diagnostics"}

RECURSIVE deepMerge(_, _)
deepMerge(target, source) ==
    [key \in DOMAIN target \cup DOMAIN source |->
        IF key \notin DOMAIN source THEN target[key]
        ELSE IF IsArray(key) THEN source[key]
        ELSE IF IsObject(key)
             THEN deepMerge(IF key \in DOMAIN target THEN target[key] ELSE << >>,
                            source[key])
        ELSE source[key]]

(* watch(state, ..., {deep: true}): a changed form is saved before the
   task ends; the saved text parses back to the same plain data *)
Watch(s, r) == IF r.state # s.state THEN [r EXCEPT !.storage = Some(r.state)] ELSE r

(* reactive(loadFromStorage()) when the page is loaded *)
loadFromStorage(s) ==
    IF s.storage = None THEN defaultState
    ELSE deepMerge(defaultState, s.storage[1])

(* the files a file input can hold; the page keeps name and size of each *)
Files ==
    {[name |-> "ecg.pdf", size |-> 1, type |-> "application/pdf"],
     [name |-> "xray.png", size |-> 2, type |-> "image/png"],
     [name |-> "labs.pdf", size |-> 3, type |-> "application/pdf"]}

FileLists == UNION {[1 .. n -> Files] : n \in 0 .. MaxFiles}

Entry(file) == [name |-> file.name, size |-> file.size]

handleFilesSelectedAppends(s, files) ==
    IF Len(files) = 0 THEN s
    ELSE Watch(s, [s EXCEPT !.state.diagnostics.attachments =
                        @ \o [i \in 1 .. Len(files) |-> Entry(files[i])]])

handleFilesSelected(s, files) ==
    IF Len(files) = 0 THEN s
    ELSE Watch(s, [s EXCEPT !.state.diagnostics.attachments =
                        [i \in 1 .. Len(files) |-> Entry(files[i])]])

removeAttachment(s, index) ==
    LET old == s.state.diagnostics.attachments
    IN  Watch(s, [s EXCEPT !.state.diagnostics.attachments =
                      [i \in 1 .. Len(old) - 1 |->
                          IF i < index THEN old[i] ELSE old[i + 1]]])

reset(s) == Watch(s, [s EXCEPT !.state = defaultState])

patch(s, payload) == Watch(s, [s EXCEPT !.state = deepMerge(s.state, payload)])

Names == {"", "Nora Doe"}
Tests == {"", "CBC"}

Payloads ==
    {[basicInfo |-> [fullName |-> n]] : n \in Names}
    \cup {[diagnostics |-> [recentTests |-> x]] : x \in Tests}
    \cup {[diagnostics |-> [attachments |->
               [i \in 1 .. Len(fs) |-> Entry(fs[i])]]] : fs \in FileLists}

FilesSelected ==
    \E files \in FileLists : Commit(handleFilesSelected(Cur, files))

RemoveAttachment ==
    \E index \in 1 .. Len(state.diagnostics.attachments) :
        Commit(removeAttachment(Cur, index))

(* v-model on a text field of the form *)
EditField ==
    \/ \E n \in Names :
          Commit(Watch(Cur, [Cur EXCEPT !.state.basicInfo.fullName = n]))
    \/ \E x \in Tests :
          Commit(Watch(Cur, [Cur EXCEPT !.state.diagnostics.recentTests = x]))

Reset == Commit(reset(Cur))

Patch == \E payload \in Payloads : Commit(patch(Cur, payload))

(* the page is loaded again: the form is read back from localStorage *)
Reload == Commit([Cur EXCEPT !.state = loadFromStorage(Cur)])

BaseUrls ==
    {lead \o scheme \o << Host >> \o [k \in 1 .. n |-> "/"] \o trail :
        lead \in {<< >>, << " " >>},
        scheme \in {<< >>} \cup {<< sc >> : sc \in Schemes},
        n \in 0 .. MaxSlashes,
        trail \in {<< >>, << " " >>}}

Models == {"undefined", "", "  ", "gpt-realtime"}

(* the composable is set up with a configuration and computes the address
   of its signaling socket, as openRealtimeSocket does after start() has
   checked the license *)
BuildEndpoint ==
    /\ license # ""
    /\ \E b \in BaseUrls, m \in Models :
          LET s == [Cur EXCEPT !.baseUrl = b, !.model = m]
          IN  Commit([s EXCEPT !.endpoint =
                         IF s.twoSocket THEN realtimeApiEndpoint(s)
                         ELSE buildRealtimeEndpoint(s)])

Buffers == UNION {[1 .. n -> Samples] : n \in 0 .. MaxSamples}

(* the encoder is applied to an input buffer *)
Encode ==
    \E buffer \in Buffers :
        Commit([Cur EXCEPT !.float32Array = buffer,
                           !.pcm16 = floatTo16BitPCM(buffer)])

(* a payload of n characters, each told apart by its position *)
Payload(n) == [k \in 1 .. n |-> k]

PayloadLengths ==
    {n \in 0 .. MaxChunks * chunkSize + Margin :
        \/ n % chunkSize <= Margin
        \/ n % chunkSize >= chunkSize - Margin}
    \cup {FrameLength}

(* a capture graph whose callback is attached hands over one buffer *)
AudioProcess ==
    /\ audioProcessor \/ orphanCaptures > 0
    /\ \E n \in PayloadLengths : Commit(onaudioprocess(Cur, Payload(n)))

GetUserMediaRejects ==
    /\ pendingGUM > 0
    /\ Commit(CaptureDenied([Cur EXCEPT !.pendingGUM = @ - 1]))

(* the timer behind the handle fires *)
HangupTimerFires ==
    /\ hangupTimeout.armed
    /\ Commit(HangupTimeoutCallback(Cur, hangupTimeout.reason))

----------------------------------------------------------------------------
(* The two dialects *)

Shared ==
    \/ Start \/ Stop \/ Toggle \/ ToggleMicrophone
    \/ SocketOpens \/ SocketFails \/ SocketCloses
    \/ SessionUpdated \/ AudioDone
    \/ FunctionCallArgumentsDelta \/ FunctionCallArgumentsDone
    \/ Offer
    \/ OfferFetchSettles \/ OfferSetRemoteSettles
    \/ OfferCreateAnswerSettles \/ OfferSetLocalSettles
    \/ GetUserMediaResolves \/ GetUserMediaRejects
    \/ HangupTimerFires

Next == Shared \/ ConnectedFail

NextTwo == Shared \/ ResultSocketOpens \/ ResultSocketFails \/ ResultSocketCloses

Spec == Init /\ [][Next]_vars

SpecTwo == InitTwo /\ [][NextTwo]_vars

(* The session without media negotiation: every handler of the multiplexed
   dialect except handleOffer and its continuations, none of which reads or
   writes isActive, pendingHangupReason or hangupTimeout. *)
NextSignaling ==
    \/ Start \/ Stop \/ Toggle \/ ToggleMicrophone
    \/ SocketOpens \/ SocketFails \/ SocketCloses \/ ConnectedFail
    \/ SessionUpdated \/ AudioDone
    \/ FunctionCallArgumentsDelta \/ FunctionCallArgumentsDone
    \/ GetUserMediaResolves \/ GetUserMediaRejects
    \/ HangupTimerFires

(* setTimeout: the callback of a timer that stays armed is eventually run *)
FairSpec == Init /\ [][NextSignaling]_vars /\ WF_vars(HangupTimerFires)

(* The session and its event dispatcher, without media negotiation and
   capture: the handlers that read or write the transcript and the two
   accumulator maps. *)
NextDispatcher ==
    \/ Start \/ Stop \/ ClearHistory
    \/ SocketOpens \/ SocketFails \/ SocketCloses
    \/ SpeechStarted \/ TranscriptDelta \/ TranscriptDone
    \/ FunctionCallArgumentsDelta \/ FunctionCallArgumentsDone
    \/ AudioDone \/ HangupTimerFires

SpecDispatcher == Init /\ [][NextDispatcher]_vars

(* The session and its media negotiation: offers, answers, candidates and
   the connection state of the link. *)
NextNegotiation ==
    \/ Start \/ Stop
    \/ SocketOpens \/ SocketFails \/ SocketCloses
    \/ Offer \/ Answer \/ IceCandidate
    \/ OfferFetchSettles \/ OfferSetRemoteSettles
    \/ OfferCreateAnswerSettles \/ OfferSetLocalSettles
    \/ ConnectionStateChanges

SpecNegotiation == Init /\ [][NextNegotiation]_vars

(* The session with its capture, its hangup timer and a peer link, and the
   server's notices about the connection and the account. *)
NextNotices ==
    \/ NextSignaling \/ InsufficientBalance
    \/ Offer \/ OfferFetchSettles

SpecNotices == Init /\ [][NextNotices]_vars

(* The session driven by payload-free events of every discriminant. *)
NextEvents ==
    \/ Start \/ Stop
    \/ SocketOpens \/ SocketCloses
    \/ Event
    \/ OfferFetchSettles \/ GetUserMediaResolves

SpecEvents == Init /\ [][NextEvents]_vars

(* The session and its tool calls, with argument texts streamed in
   halves. *)
NextToolCall ==
    \/ Start \/ Stop
    \/ SocketOpens \/ SocketFails \/ SocketCloses \/ ConnectedFail
    \/ FunctionCallArgumentsStreamed \/ FunctionCallArgumentsDone
    \/ AudioDone \/ HangupTimerFires

SpecToolCall == Init /\ [][NextToolCall]_vars

(* The session and its audio pipeline, without media negotiation and tool
   calls. *)
NextCapture ==
    \/ Start \/ Stop \/ ToggleMicrophone
    \/ SocketOpens \/ SocketCloses
    \/ SessionUpdated
    \/ GetUserMediaResolves \/ GetUserMediaRejects
    \/ AudioProcess

SpecCapture == Init /\ [][NextCapture]_vars

(* The contents a stored chat entry may have: empty, blank, plain, and
   padded with blanks. *)
Contents == {<< >>, << " " >>, << "a" >>, << " ", "b", " " >>}

(* loadChatHistory(): whatever array the storage holds *)
Histories ==
    UNION {[1 .. n -> [role : {"user", "assistant"}, content : Contents]] :
              n \in 0 .. MaxHistory}

(* A session of either dialect that starts from a stored chat history. *)
InitReplay ==
    /\ twoSocket \in BOOLEAN
    /\ opensAfterClose = FALSE
    /\ \E history \in Histories : InitWith(history)

NextReplay ==
    \/ Start \/ Stop
    \/ SocketOpens \/ SocketCloses
    \/ SessionCreated \/ ClearHistory

SpecReplay == InitReplay /\ [][NextReplay]_vars

(* The intake form and its attachment list. *)
NextIntake ==
    \/ FilesSelected \/ RemoveAttachment \/ EditField
    \/ Reset \/ Patch \/ Reload

SpecIntake == Init /\ [][NextIntake]_vars

(* The construction of the signaling address alone, in both dialects, for
   every configuration in range. *)
InitEndpoint == twoSocket \in BOOLEAN /\ opensAfterClose = FALSE /\ InitCommon

NextEndpoint == BuildEndpoint

SpecEndpoint == InitEndpoint /\ [][NextEndpoint]_vars

(* The sample encoder alone, applied to every input buffer in range. *)
NextEncoder == Encode

SpecEncoder == Init /\ [][NextEncoder]_vars

(* The multiplexed dialect on a platform that may deliver the open event
   queued before close() was called on a connecting socket. *)
SpecLateOpen == InitLateOpen /\ [][NextSignaling \/ ClosedSocketOpens]_vars

----------------------------------------------------------------------------
(* Properties *)

Count(b) == IF b THEN 1 ELSE 0

Idle == ~isActive /\ ~isConnecting

Teardown ==
    {"socket.close", "resultSocket.close", "peerConnection.close",
     "audioProcessor.disconnect", "audioStream.stop", "audioContext.close",
     "clearTimeout"}

Ops(s) == {s.fx[i] : i \in 1 .. Len(s.fx)}

(* s as the next handler finds it *)
Settled(s) == [s EXCEPT !.fx = << >>, !.sent = << >>]

(* C1: the controller holds at most one un-released signaling socket, at
   most one peer connection, at most one capture handle and at most one
   hangup timer, whatever the order of calls, events and completions. *)
C1_AtMostOneOfEach ==
    /\ Count(Live(socket)) + orphanSockets <= 1
    /\ Count(peerConnection.st = "live") + orphanPeers <= 1
    /\ Count(audioStream) + orphanCaptures <= 1
    /\ Count(hangupTimeout.armed) + Cardinality(orphanTimers) <= 1

(* C2: whenever the session is idle, the signaling socket, the peer
   connection, the capture handle and the hangup timer are all absent. *)
C2_IdleHoldsNothing ==
    Idle => /\ socket = "none"
            /\ peerConnection.st = "none"
            /\ ~audioContext /\ ~audioStream /\ ~audioProcessor
            /\ ~hangupTimeout.armed

(* C3: from any state, a second stop() right after a first one leaves the
   state the first one produced and closes no socket, closes no peer
   connection, stops no capture track and cancels no timer. *)
C3_StopIdempotent ==
    LET once == stop(Cur)
        twice == stop(Settled(once))
    IN  /\ State(twice) = State(once)
        /\ Ops(twice) \cap Teardown = {}
        /\ ~once.isActive /\ ~once.isConnecting

C3_Witness ==
    /\ isActive /\ socket = "open" /\ peerConnection.st = "live"
    /\ audioStream /\ hangupTimeout.armed
    /\ Ops(stop(Cur)) \cap Teardown # {}

(* C4: stop() called while the hangup timer is armed cancels it, and no
   timer outlives the teardown of the session that armed it, so that it
   can never fire afterwards nor tear down a later session. *)
C4_StopCancelsTimer ==
    /\ hangupTimeout.armed =>
           LET r == stop(Cur)
           IN  /\ ~r.hangupTimeout.armed /\ r.orphanTimers = {}
               /\ "clearTimeout" \in Ops(r)
    /\ ~hangupTimeout.stale
    /\ \A t \in orphanTimers : ~t.stale

C4_Witness == hangupTimeout.armed /\ isActive /\ hangupTimeout.reason = "bye"

(* C5: an end_conversation tool call only records the pending reason, it
   arms no timer and does not stop the session; a timer becomes armed only
   in the handling of audio-done with a reason pending; and the handling of
   audio-done does not itself stop the session. *)
C5_ToolCallOnlyRecords ==
    Receives =>
        \A callId \in CallIds \cup {NULL}, arguments \in {None, Some(ValidArgs)} :
            LET r == OnFunctionCallArgumentsDone(Cur, "end_conversation",
                                                 callId, arguments)
            IN  /\ r.pendingHangupReason # NULL
                /\ ~r.hangupTimeout.armed
                /\ "setTimeout" \notin Ops(r)
                /\ r.isActive = isActive /\ r.isConnecting = isConnecting
                /\ r.socket = socket

C5_AudioDoneDoesNotStop ==
    Receives =>
        LET r == OnAudioDone(Cur)
        IN  /\ r.isActive = isActive /\ r.isConnecting = isConnecting
            /\ r.socket = socket
            /\ r.hangupTimeout.armed = (pendingHangupReason # NULL \/ hangupTimeout.armed)

C5_ArmedOnlyByAudioDone ==
    (~hangupTimeout.armed /\ hangupTimeout'.armed) =>
        /\ pendingHangupReason # NULL
        /\ pendingHangupReason' = NULL
        /\ hangupTimeout'.reason = pendingHangupReason
        /\ AudioDone

C5_TwoPhase ==
    /\ [](C5_ToolCallOnlyRecords /\ C5_AudioDoneDoesNotStop)
    /\ [][C5_ArmedOnlyByAudioDone]_vars

C5_Witness ==
    /\ isActive /\ hangupTimeout.armed /\ pendingHangupReason = NULL
    /\ hangupTimeout.reason = "bye" /\ statusMessage = "Listening"

(* C6: once the hangup timer of an active session is armed (a tool call,
   then audio-done), the session reaches idle: the firing of the timer runs
   stop(), and under fairness of the timer the firing or an earlier stop()
   eventually happens, unless a further end_conversation call replaced the
   timer by a new pending reason. *)
Rescheduled ==
    isActive /\ ~hangupTimeout.armed /\ pendingHangupReason # NULL

C6_FiringStops ==
    (HangupTimerFires /\ isActive) =>
        /\ Idle' /\ statusMessage' = "Idle"
        /\ State(Cur)' = State(stop(Cur))

C6_ArmedLeadsToIdle ==
    (isActive /\ hangupTimeout.armed) ~> (Idle \/ Rescheduled)

C7_FiringWhileInactiveIsNoOp ==
    (hangupTimeout.armed /\ ~isActive) =>
        LET r == HangupTimeoutCallback(Cur, hangupTimeout.reason)
        IN  /\ r = [Cur EXCEPT !.hangupTimeout = NoTimer]
            /\ r.fx = << >> /\ r.sent = << >>

C7_Witness == hangupTimeout.armed /\ ~isActive /\ isConnecting /\ socket = "open"

(* C8: start() while the session is connecting or active changes nothing
   and opens no socket; a socket is opened only from idle. *)
C8_StartIsNoOp == (isConnecting \/ isActive) => start(Cur) = Cur

C8_OpensOnlyFromIdle ==
    (socket' = "connecting" /\ socket # "connecting") => (Idle /\ orphanSockets' = 0)

C8_StartGuard == []C8_StartIsNoOp /\ [][C8_OpensOnlyFromIdle]_vars

C8_Witness == isConnecting /\ socket = "connecting" /\ ~isActive

(* C9: start() with an empty license surfaces the configuration error,
   opens no connection, performs no teardown and leaves the session idle. *)
C9_EmptyLicense ==
    license = "" =>
        /\ LET r == start(Cur)
           IN  /\ r = [Cur EXCEPT !.errorMessage = ErrLicense]
               /\ r.fx = << >>
        /\ Idle /\ socket = "none" /\ orphanSockets = 0

C9_Witness == license = "" /\ errorMessage = ErrLicense /\ Idle

(* C10: the session becomes active only in the step in which the transport
   signals ready; when the connecting socket fails instead, the generic
   error is surfaced, everything is torn down and the session is idle. *)
C10_ActiveOnlyWhenReady ==
    (~isActive /\ isActive') =>
        (socket = "connecting" /\ socket' = "open" /\ ~isConnecting')

C10_FailureTearsDown ==
    SocketFails =>
        /\ errorMessage' = ErrStart
        /\ ~isActive' /\ ~isConnecting' /\ statusMessage' = "Idle"
        /\ socket' = "none" /\ peerConnection'.st = "none"
        /\ ~audioContext' /\ ~audioStream' /\ ~audioProcessor'
        /\ ~hangupTimeout'.armed /\ pendingHangupReason' = NULL

C10_StartOutcome == [][C10_ActiveOnlyWhenReady /\ C10_FailureTearsDown]_vars

C10_Witness ==
    /\ errorMessage = ErrStart /\ Idle /\ socket = "none"
    /\ statusMessage = "Idle"

(* C11: a failure of the signaling connection, before the open completed
   or after the session became active, ends in idle with the connecting
   flag cleared and no socket held; no socket is ever created but by an
   explicit start() or toggle(); and a start() after the failure is
   accepted. *)
C11_FailureEndsIdle ==
    (SocketFails \/ SocketCloses) =>
        /\ Idle' /\ socket' = "none" /\ orphanSockets' = 0
        /\ LET r == start(Cur)'
           IN  r.isConnecting /\ r.socket = "connecting"

C11_NoReconnection ==
    (socket' = "connecting" /\ socket # "connecting") => (Start \/ Toggle)

C11_FailureIsFinal == [][C11_FailureEndsIdle /\ C11_NoReconnection]_vars

C11_Witness ==
    /\ Idle /\ socket = "none" /\ errorMessage = ErrPoints
    /\ start(Cur).socket = "connecting"

(* C12: a close of the signaling socket while the session is active
   surfaces an error and tears the session down to idle; a close while the
   session is not active surfaces no error and changes no session state. *)
C12_CloseSurfacesErrorWhenActive ==
    socket = "open" =>
        \A reason \in {"", "Insufficient points"} :
            LET s == [Cur EXCEPT !.socket = "closed"]
                r == RealtimeOnClose(s, reason)
            IN  IF isActive
                THEN /\ r.errorMessage \in {ErrClosed, ErrPoints}
                     /\ ~r.isActive /\ ~r.isConnecting /\ r.socket = "none"
                     /\ r.peerConnection.st = "none" /\ ~r.audioStream
                ELSE /\ r.errorMessage = errorMessage
                     /\ r.isConnecting = isConnecting
                     /\ r.statusMessage = statusMessage

(* C13: once cleanupSockets ran on a socket, no callback of that socket
   changes session state; in particular the late open event of a socket
   closed while connecting does not mark the session active. *)
C13_ClosedSocketIsSilent ==
    [][ClosedSocketOpens =>
          UNCHANGED << isActive, isConnecting, statusMessage, errorMessage >>]_vars

(* C14: stop() clears the pending reason and the timer first, then
   releases the audio pipeline, then the peer link, then the signaling
   sockets: no socket is closed before capture and peer link are released. *)
Rank(e) ==
    CASE e = "clearTimeout" -> 0
      [] e \in {"audioProcessor.disconnect", "audioStream.stop",
                "audioContext.close"} -> 1
      [] e \in {"peerConnection.close", "video.reset"} -> 2
      [] e \in {"socket.close", "resultSocket.close"} -> 3
      [] OTHER -> 4

C14_StopOrder ==
    LET r == stop(Cur)
    IN  /\ \A i, j \in 1 .. Len(r.fx) : i < j => Rank(r.fx[i]) <= Rank(r.fx[j])
        /\ \A i \in 1 .. Len(r.fx) : Rank(r.fx[i]) < 4
        /\ r.pendingHangupReason = NULL /\ ~r.hangupTimeout.armed
        /\ ~r.audioStream /\ r.peerConnection.st = "none" /\ r.socket = "none"

C14_Witness ==
    stop(Cur).fx = << "clearTimeout", "audioProcessor.disconnect",
                      "audioStream.stop", "audioContext.close",
                      "peerConnection.close", "video.reset", "socket.close" >>

(* C15: after stop() both accumulator maps are empty: no fragment of a
   streaming response and no fragment of tool-call arguments remains. *)
C15_StopClearsAccumulators ==
    LET r == stop(Cur)
    IN  /\ DOMAIN r.functionCallArguments = {}
        /\ DOMAIN r.streamingResponses = {}

(* C16: toggle() does what stop() does when the session is active and what
   start() does otherwise; while the session is connecting it changes
   nothing and the connection attempt goes on. *)
C16_ToggleDispatch ==
    LET r == toggle(Cur)
    IN  /\ isActive =>
               /\ r = stop(Cur)
               /\ ~r.isActive /\ ~r.isConnecting /\ r.socket = "none"
        /\ ~isActive => r = start(Cur)
        /\ (Idle /\ license # "") =>
               /\ r.isConnecting /\ r.socket = "connecting"
               /\ r.fx = << "socket.new" >>
        /\ (isConnecting /\ ~isActive) =>
               /\ r = Cur /\ r.fx = << >>
               /\ twoSocket \/ r.socket = "connecting"

C16_Witness ==
    /\ isConnecting /\ ~isActive /\ socket = "connecting"
    /\ toggle(Cur) = Cur /\ stop(Cur) # Cur

(* C17: the completion of a device acquisition or of a step of an offer
   negotiation that settles after the session was torn down is discarded:
   it creates no capture and no peer link and surfaces no error. *)
C17_Completion ==
    \/ GetUserMediaResolves \/ GetUserMediaRejects
    \/ OfferFetchSettles \/ OfferSetRemoteSettles
    \/ OfferCreateAnswerSettles \/ OfferSetLocalSettles

C17_StaleCompletionDiscarded ==
    [][(Idle /\ C17_Completion) =>
          UNCHANGED << audioContext, audioStream, audioProcessor,
                       orphanCaptures, peerConnection, orphanPeers,
                       errorMessage >>]_vars

(* C18: transcript deltas for one response id, then a transcript-done for
   that id that carries no transcript, with no speech-started in between:
   the entry appended has the deltas concatenated in arrival order as its
   content, and the accumulator of the id is gone.  Deltas of another
   response in between change nothing, and between the events of the
   sequence only a reset (speech-started, a new start(), clearHistory())
   touches the accumulator. *)
Deltas == {<< >>} \cup {<< c >> : c \in Chars}

C18_DeltasConcatenate ==
    Receives =>
        \A id \in ResponseIds, d1, d2 \in Deltas :
            LET other == CHOOSE k \in ResponseIds : k # id
                s1 == OnTranscriptDelta(Cur, id, Some(d1))
                s2 == OnTranscriptDelta(s1, other, Some(<< "b" >>))
                s3 == OnTranscriptDelta(s2, id, Some(d2))
                r == OnTranscriptDone(s3, id, None)
                whole == Accumulated(Cur, id) \o d1 \o d2
            IN  /\ Accumulated(s3, id) = whole
                /\ s3.chatMessages = chatMessages
                /\ id \notin DOMAIN r.streamingResponses
                /\ (whole # << >> /\ ~r.ovf) =>
                       r.chatMessages =
                           Append(chatMessages,
                                  [role |-> "assistant", content |-> whole])
                /\ whole = << >> => r.chatMessages = chatMessages

C18_AccumulatorOnlyGrows ==
    \A id \in ResponseIds :
        LET before == Accumulated(Cur, id)
            after == Accumulated(Cur, id)'
        IN  after # before =>
                \/ /\ TranscriptDelta
                   /\ Len(after) > Len(before)
                   /\ SubSeq(after, 1, Len(before)) = before
                \/ after = << >> /\ (TranscriptDone \/ SpeechStarted
                                       \/ Start \/ ClearHistory)

C18_TranscriptOfDeltas ==
    []C18_DeltasConcatenate /\ [][C18_AccumulatorOnlyGrows]_vars

C18_Witness ==
    /\ Len(chatMessages) = 1
    /\ chatMessages[1] = [role |-> "assistant", content |-> << "a", "b" >>]
    /\ "r1" \notin DOMAIN streamingResponses
    /\ "r2" \in DOMAIN streamingResponses

(* C19: a transcript-done for a response id whose accumulator is non-empty
   appends exactly one entry and deletes the accumulator; with an empty or
   absent accumulator and no transcript text in the event it appends
   none. *)
C19_DoneAppendsOnce ==
    Receives =>
        \A id \in ResponseIds,
           transcript \in {None, Some(<< >>), Some(<< "b" >>)} :
            LET r == OnTranscriptDone(Cur, id, transcript)
                acc == Accumulated(Cur, id)
            IN  ~r.ovf =>
                    /\ acc # << >> =>
                           /\ Len(r.chatMessages) = Len(chatMessages) + 1
                           /\ id \notin DOMAIN r.streamingResponses
                    /\ (acc = << >> /\ transcript = None) =>
                           r.chatMessages = chatMessages

(* C20: a function-call-arguments-done whose argument text is not valid
   JSON is abandoned: no pending termination is recorded, no tool result
   is sent and nothing is surfaced to the user. *)
C20_MalformedArgumentsAbandoned ==
    Receives =>
        \A callId \in DOMAIN functionCallArguments,
           name \in {"end_conversation", "lookup"} :
            LET txt == functionCallArguments[callId]
                r == OnFunctionCallArgumentsDone(Cur, name, callId, None)
            IN  (StripWhitespace(txt) # << >> /\ ~JSONParse(txt).ok) =>
                    /\ r.pendingHangupReason = pendingHangupReason
                    /\ r.hangupTimeout = hangupTimeout
                    /\ r.sent = << >>
                    /\ r.errorMessage = errorMessage
                    /\ r.isActive = isActive

(* C21: an invocation of end_conversation with reason R and a call id
   sends back exactly one tool result for that call id, with output
   {action: auto_hangup, status: scheduled, reason}, and records the reason
   as pending termination.  As claimed, the reason echoed and recorded is R
   itself; as amended, it is R trimmed, or the default reason when R is
   blank. *)
ArgsWithReason(lit) == << "{", "\"reason\":", lit, "}" >>

ToolResults(s) ==
    SelectSeq(s.sent, LAMBDA m : m.type = "conversation.item.create")

HangupResult(callId, reason) ==
    [to |-> "socket", type |-> "conversation.item.create", call_id |-> callId,
     output |-> [action |-> "auto_hangup", status |-> "scheduled",
                 reason |-> reason]]

C21_EchoesReasonVerbatim ==
    Receives =>
        \A callId \in CallIds, lit \in StringLiterals :
            LET R == LiteralValue(lit)
                r == OnFunctionCallArgumentsDone(Cur, "end_conversation", callId,
                                                 Some(ArgsWithReason(lit)))
            IN  /\ ToolResults(r) = << HangupResult(callId, R) >>
                /\ r.pendingHangupReason = R

C21_EchoesReason ==
    Receives =>
        \A callId \in CallIds, lit \in StringLiterals :
            LET R == LiteralValue(lit)
                echoed == IF R \in {"", "  "} THEN DefaultReason ELSE R
                r == OnFunctionCallArgumentsDone(Cur, "end_conversation", callId,
                                                 Some(ArgsWithReason(lit)))
            IN  /\ ToolResults(r) = << HangupResult(callId, echoed) >>
                /\ r.sent = << HangupResult(callId, echoed),
                               [to |-> "socket", type |-> "response.create"] >>
                /\ r.pendingHangupReason = echoed
                /\ ~r.hangupTimeout.armed

C21_Witness ==
    /\ Receives /\ pendingHangupReason = "bye" /\ statusMessage = "Listening"
    /\ ~hangupTimeout.armed

(* C22: a base64 audio payload of any length, handed over while the socket
   is open, is sent as consecutive append messages whose chunks have at
   most 4096 characters each, none empty, and whose concatenation in the
   order sent is the payload. *)
RECURSIVE Concat(_)
Concat(chunks) ==
    IF chunks = << >> THEN << >> ELSE Head(chunks) \o Concat(Tail(chunks))

C22_ChunksOfPayload ==
    (AudioProcess /\ socket = "open") =>
        /\ Concat(appended') = base64PCM'
        /\ \A k \in 1 .. Len(appended') :
               Len(appended'[k]) >= 1 /\ Len(appended'[k]) <= 4096
        /\ Len(appended') = (Len(base64PCM') + 4095) \div 4096

C22_Chunking == [][C22_ChunksOfPayload]_vars

C22_Witness ==
    /\ Len(base64PCM) = 4097 /\ Len(appended) = 2
    /\ Len(appended[1]) = 4096 /\ appended[2] = << 4097 >>

(* C23: the encoder turns a buffer of samples into twice as many bytes,
   two per sample with the low byte first, read as a signed 16-bit value:
   1.0 gives 32767, -1.0 gives -32768, every sample above 1 gives 32767
   and every sample below -1 gives -32768. *)
Int16At(bytes, i) ==
    LET u == bytes[2 * i - 1] + 256 * bytes[2 * i]
    IN  IF u >= 32768 THEN u - 65536 ELSE u

Above1(x) == x.kind = "Infinity" \/ (x.kind = "finite" /\ x.num > Resolution)

Below1(x) == x.kind = "-Infinity" \/ (x.kind = "finite" /\ x.num < -Resolution)

C23_SampleEncoding ==
    /\ Len(pcm16) = 2 * Len(float32Array)
    /\ \A k \in 1 .. Len(pcm16) : pcm16[k] \in 0 .. 255
    /\ \A i \in 1 .. Len(float32Array) :
          LET x == float32Array[i]
          IN  /\ x = Finite(Resolution) => Int16At(pcm16, i) = 32767
              /\ x = Finite(-Resolution) => Int16At(pcm16, i) = -32768
              /\ Above1(x) => Int16At(pcm16, i) = 32767
              /\ Below1(x) => Int16At(pcm16, i) = -32768

C23_Witness ==
    /\ float32Array = << Finite(Resolution), Finite(-Resolution - 1) >>
    /\ pcm16 = << 255, 127, 0, 128 >>

(* C24: for every configured base address (a bare host or one with a ws,
   wss, http or https scheme, with or without trailing separators) the
   signaling address starts with the wss scheme followed by the host, then
   the fixed path after a single separator, then the license and name
   query parameters, and the model parameter exactly when the configured
   model is not blank. *)
C24_SecureEndpoint ==
    endpoint # << >> =>
        /\ endpoint[1] = "wss://"
        /\ endpoint[2] = Host
        /\ endpoint[3] = "/"
        /\ endpoint[4] = (IF twoSocket THEN "api/realtime-api"
                          ELSE "wss/v2/realtime-chat")
        /\ SubSeq(endpoint, 5, 10) =
              << "?", "license=", license, "&",
                 IF twoSocket THEN "characterName=" ELSE "name=",
                 characterName >>
        /\ (~twoSocket /\ model \in {"gpt-realtime"}) =>
              SubSeq(endpoint, 11, Len(endpoint)) =
                  << "&", "model=", "gpt-realtime" >>
        /\ model \in {"undefined", "", "  "} => Len(endpoint) = 10

(* C25: whatever the form holds, selecting a non-empty set of files makes
   the attachment list exactly the name and size of the selected files, in
   order, so that no earlier entry survives, and changes no other field of
   the form. *)
C25_UploadReplaces ==
    \A files \in FileLists \ {<< >>} :
        LET after == handleFilesSelected(Cur, files).state
        IN  /\ after.diagnostics.attachments =
                  [i \in 1 .. Len(files) |->
                      [name |-> files[i].name, size |-> files[i].size]]
            /\ after.basicInfo = state.basicInfo
            /\ after.diagnostics.recentTests = state.diagnostics.recentTests
            /\ DOMAIN after = DOMAIN state
            /\ DOMAIN after.diagnostics = DOMAIN state.diagnostics

C25_Witness ==
    /\ state.basicInfo.fullName = "Nora Doe"
    /\ Len(state.diagnostics.attachments) = 2
    /\ \E f \in Files :
          /\ \A i \in 1 .. 2 : state.diagnostics.attachments[i].name # f.name
          /\ handleFilesSelected(Cur, << f >>).state.diagnostics.attachments
                 = << [name |-> f.name, size |-> f.size] >>

(* C26: a session.created event received on the open socket makes the
   handler send exactly one session.update first and then one
   conversation.item.create for each transcript entry of role user whose
   content is not blank, in transcript order, and nothing for assistant
   entries. *)
UserEntries == SelectSeq(chatMessages,
                         LAMBDA m : m.role = "user"
                                    /\ \E i \in 1 .. Len(m.content) : m.content[i] # " ")

C26_ReplayOnCreated ==
    SessionCreated =>
        /\ Len(sessionMessages') = 1 + Len(UserEntries)
        /\ sessionMessages'[1].type = "session.update"
        /\ \A i \in 1 .. Len(UserEntries) :
              /\ sessionMessages'[i + 1].type = "conversation.item.create"
              /\ sessionMessages'[i + 1].role = "user"
              /\ sessionMessages'[i + 1].text = TrimText(UserEntries[i].content)

C26_Replay == [][C26_ReplayOnCreated]_vars

(* C27: a session.updated event received on the open socket makes the
   handler send exactly one response.create and start the audio pipeline:
   with the microphone enabled and no capture running the device is asked
   for, and with the microphone disabled no device is asked for and no
   capture handle is created. *)
C27_SessionUpdated ==
    Receives =>
        LET r == OnSessionUpdated(Cur)
        IN  /\ r.sent = << [to |-> "socket", type |-> "response.create"] >>
            /\ r.statusMessage = "Ready"
            /\ (isMicEnabled /\ ~audioContext /\ ~r.ovf) =>
                  r.fx = << "getUserMedia" >> /\ r.pendingGUM = pendingGUM + 1
            /\ ~isMicEnabled =>
                  /\ r.fx = << >>
                  /\ r.pendingGUM = pendingGUM
                  /\ r.audioContext = audioContext
                  /\ r.audioStream = audioStream
                  /\ r.audioProcessor = audioProcessor
                  /\ r.orphanCaptures = orphanCaptures

C27_Witness ==
    /\ Receives /\ statusMessage = "Ready" /\ ~isMicEnabled
    /\ pendingGUM = 0 /\ ~audioContext /\ ~audioStream /\ orphanCaptures = 0

(* C28: a capture handle exists only while the microphone is enabled: from
   disableMicrophone() until enableMicrophone() there is no audio context,
   stream or processor, also when a device request made before the mute
   is granted after it. *)
C28_CaptureOnlyWhileEnabled ==
    (audioContext \/ audioStream \/ audioProcessor \/ orphanCaptures > 0)
        => isMicEnabled

(* C29: toggling the microphone while the session is active flips the
   microphone flag and touches nothing but the capture handles and the
   device request: the sockets, the peer connection and its offers, the
   lifecycle flags and status, the pending termination reason and the
   hangup timer stay as they were, nothing is sent, and no socket or peer
   operation is performed. *)
C29_ToggleFrame ==
    (ToggleMicrophone /\ isActive) =>
        /\ isMicEnabled' = ~isMicEnabled
        /\ UNCHANGED << socket, resultSocket, orphanSockets, closedConnecting,
                        peerConnection, orphanPeers, offers, configuration,
                        isActive, isConnecting, statusMessage, errorMessage,
                        pendingHangupReason, hangupTimeout, orphanTimers >>
        /\ toggleMicrophone(Cur).sent = << >>
        /\ Ops(toggleMicrophone(Cur)) \subseteq
              {"getUserMedia", "audioProcessor.disconnect", "audioStream.stop",
               "audioContext.close"}

C29_MicrophoneToggleFrame == [][C29_ToggleFrame]_vars

C29_Witness ==
    /\ isActive /\ socket = "open" /\ ~isMicEnabled /\ ~audioContext
    /\ peerConnection.st # "none" /\ hangupTimeout.armed

(* C30: when the arguments of a call are done, the text used is the one
   the event carries if it carries one, and otherwise the text accumulated
   from the deltas of its call id; the accumulator of that call id is
   deleted either way and the others are kept; and a call of a tool other
   than end_conversation records no pending termination, arms no timer and
   sends back one result with status ignored for its call id. *)
ReasonIn(args) ==
    IF args = None THEN DefaultReason
    ELSE LET parsed == JSONParse(args[1])
         IN  IF parsed.ok /\ parsed.reason \notin {NULL, "", "  "}
             THEN parsed.reason ELSE DefaultReason

PayloadArguments == {None, Some(ValidArgs), Some(<< "{", "}" >>)}

C30_ArgumentsDone ==
    Receives =>
        \A callId \in CallIds, arguments \in PayloadArguments :
            LET acc == functionCallArguments
                used == IF arguments # None THEN arguments
                        ELSE IF callId \in DOMAIN acc THEN Some(acc[callId])
                        ELSE None
                hangup == OnFunctionCallArgumentsDone(Cur, "end_conversation",
                                                      callId, arguments)
                other == OnFunctionCallArgumentsDone(Cur, "lookup", callId,
                                                     arguments)
            IN  /\ hangup.pendingHangupReason = ReasonIn(used)
                /\ \A r \in {hangup, other} :
                      /\ callId \notin DOMAIN r.functionCallArguments
                      /\ \A k \in DOMAIN acc \ {callId} :
                            /\ k \in DOMAIN r.functionCallArguments
                            /\ r.functionCallArguments[k] = acc[k]
                /\ other.pendingHangupReason = pendingHangupReason
                /\ other.hangupTimeout = hangupTimeout
                /\ ToolResults(other) =
                      << [to |-> "socket", type |-> "conversation.item.create",
                          call_id |-> callId, output |-> [status |-> "ignored"]] >>

C30_Witness ==
    /\ Receives /\ pendingHangupReason = NULL
    /\ \E callId \in DOMAIN functionCallArguments :
          /\ functionCallArguments[callId] = ValidArgs
          /\ OnFunctionCallArgumentsDone(Cur, "end_conversation", callId,
                                         None).pendingHangupReason = "bye"
          /\ OnFunctionCallArgumentsDone(Cur, "end_conversation", callId,
                                         Some(<< "{", "}" >>)).pendingHangupReason
                 = DefaultReason

(* C31: a speech-started event received on the open socket removes the
   accumulated fragment of every response id and appends no transcript
   entry, and a later done event without transcript for a discarded id
   appends none either. *)
C31_SpeechStartedDiscards ==
    Receives =>
        LET r == OnSpeechStarted(Cur)
        IN  /\ DOMAIN r.streamingResponses = {}
            /\ r.chatMessages = chatMessages
            /\ r.sent = << >>
            /\ \A id \in ResponseIds :
                  OnTranscriptDone(r, id, None).chatMessages = chatMessages

C31_Witness ==
    /\ Receives /\ DOMAIN streamingResponses = ResponseIds
    /\ \A id \in ResponseIds : streamingResponses[id] # << >>
    /\ DOMAIN OnSpeechStarted(Cur).streamingResponses = {}

(* C32: when the fetch of the traversal-server list fails or yields no
   usable list, handleOffer goes on to setRemoteDescription on a new link,
   surfaces no error, and the new link is created with the fixed default
   configuration, not with a list learned earlier. *)
C32_FetchFallback ==
    \A r \in Suspended("fetch"), result \in {"empty", "failed"} :
        LET q == OfferAfterFetch(Cur, r, result)
        IN  ~q.ovf =>
              /\ q.errorMessage = errorMessage
              /\ q.peerConnection.st = "live"
              /\ [stage |-> "remote", mine |-> TRUE, on |-> TRUE]
                     \in BagToSet(q.offers)
              /\ q.peerConnection.config = "default"

(* C33: an ICE candidate received on the open socket while there is no
   peer link is dropped: no link is created, no operation is performed,
   nothing is sent, no error is surfaced and the state is as before. *)
C33_CandidateWithoutLinkDropped ==
    (Receives /\ peerConnection.st = "none") =>
        \A hasCandidate \in BOOLEAN :
            handleIceCandidate(Cur, hasCandidate) = Cur

C33_Witness ==
    /\ Receives /\ isActive /\ peerConnection.st = "none"
    /\ Suspended("fetch") # {}
    /\ handleIceCandidate(Cur, TRUE).fx = << >>

(* C34: a failure of media negotiation, be it a step of handleOffer that
   throws or the link's connection state becoming failed, surfaces an
   error and tears nothing down: the lifecycle flags, the sockets, the
   link, the capture handles and the hangup state stay as they were and
   no resource is released. *)
KeepsSession(q) ==
    /\ q.isActive = isActive /\ q.isConnecting = isConnecting
    /\ q.socket = socket /\ q.resultSocket = resultSocket
    /\ q.peerConnection = peerConnection
    /\ q.audioContext = audioContext /\ q.audioStream = audioStream
    /\ q.audioProcessor = audioProcessor
    /\ q.pendingHangupReason = pendingHangupReason
    /\ q.hangupTimeout = hangupTimeout
    /\ Ops(q) \cap Teardown = {}
    /\ q.sent = << >>

C34_NegotiationFailureKeepsSession ==
    /\ \A r \in Suspended("remote") :
          LET q == OfferAfterSetRemote(Cur, r, FALSE)
          IN  q.errorMessage = ErrMedia /\ KeepsSession(q)
    /\ \A r \in Suspended("answer") :
          LET q == OfferAfterCreateAnswer(Cur, r, FALSE)
          IN  q.errorMessage = ErrMedia /\ KeepsSession(q)
    /\ \A r \in Suspended("local") :
          LET q == OfferAfterSetLocal(Cur, r, FALSE)
          IN  q.errorMessage = ErrMedia /\ KeepsSession(q)
    /\ peerConnection.st = "live" =>
          LET q == onconnectionstatechange(Cur, "failed")
          IN  q.errorMessage = ErrMediaFailed /\ KeepsSession(q)

C34_Witness ==
    /\ isActive /\ socket = "open" /\ peerConnection.st = "live"
    /\ errorMessage = ErrMediaFailed

(* C35: when the device request is denied an error is surfaced, no capture
   handle is created, and the session keeps its lifecycle flags, its
   sockets and its peer link; nothing is released or sent. *)
C35_DeniedKeepsSession ==
    pendingGUM > 0 =>
        LET q == CaptureDenied([Cur EXCEPT !.pendingGUM = @ - 1])
        IN  /\ q.errorMessage = ErrMicrophone
            /\ q.orphanCaptures = orphanCaptures
            /\ "capture.new" \notin Ops(q)
            /\ KeepsSession(q)

C35_Witness ==
    /\ isActive /\ socket = "open" /\ peerConnection.st = "live"
    /\ errorMessage = ErrMicrophone
    /\ ~audioContext /\ ~audioStream /\ ~audioProcessor /\ pendingGUM = 0

(* C36: an insufficient-balance message surfaces an error and changes
   nothing else, whereas a connection-fail or connection-close message that
   arrives while the session is active surfaces an error and tears the
   session down: it is idle, holds no socket, link or capture handle, and
   has no pending reason or armed timer. *)
C36_NoticeOutcome ==
    Receives =>
        \A message \in Notices :
            LET balance == OnInsufficientBalance(Cur, message)
                fail == OnConnectedFail(Cur, message)
            IN  /\ balance = [Cur EXCEPT !.errorMessage =
                                  IF message # NULL THEN message ELSE ErrBalance]
                /\ fail.errorMessage =
                      (IF message # NULL THEN message ELSE ErrConnection)
                /\ isActive =>
                      /\ ~fail.isActive /\ ~fail.isConnecting
                      /\ fail.statusMessage = "Idle"
                      /\ fail.socket = "none" /\ fail.peerConnection = NoPeer
                      /\ ~fail.audioContext /\ ~fail.audioStream
                      /\ ~fail.audioProcessor
                      /\ fail.pendingHangupReason = NULL
                      /\ ~fail.hangupTimeout.armed

C36_Witness ==
    /\ isActive /\ socket = "open" /\ errorMessage = ErrBalance
    /\ audioContext /\ peerConnection.st = "live" /\ hangupTimeout.armed
    /\ ~OnConnectedFail(Cur, NULL).isActive

(* C37: an event whose discriminant the dispatcher has no case for, or
   that has no discriminant, leaves the whole state as it was: nothing is
   sent, no operation is performed, no transcript entry is appended and no
   error is surfaced. *)
C37_UnrecognizedIgnored ==
    Receives =>
        \A type \in Unrecognized \cup {NULL} :
            handleRealtimeEvent(Cur, type) = Cur

C37_Witness ==
    /\ Receives /\ isActive /\ statusMessage = "Processing response"
    /\ errorMessage = ""
    /\ handleRealtimeEvent(Cur, "unknown") = Cur

(* C38: in every reachable state the pending termination reason and an
   armed hangup timer are never both present: recording a reason cancels
   any armed timer, and arming the timer consumes the reason. *)
C38_ReasonXorTimer ==
    /\ ~(pendingHangupReason # NULL /\ hangupTimeout.armed)
    /\ \A reason \in {"bye", DefaultReason} :
           LET r == scheduleAutomaticHangup(Cur, reason)
           IN  /\ r.pendingHangupReason = reason
               /\ ~r.hangupTimeout.armed
               /\ hangupTimeout.armed => "clearTimeout" \in Ops(r)
    /\ LET r == finalizeScheduledHangup(Cur)
       IN  /\ r.pendingHangupReason = NULL
           /\ pendingHangupReason # NULL =>
                  /\ r.hangupTimeout.armed
                  /\ r.hangupTimeout.reason = pendingHangupReason

C38_Witness ==
    /\ isActive /\ hangupTimeout.armed /\ Receives
    /\ scheduleAutomaticHangup(Cur, DefaultReason).pendingHangupReason
           = DefaultReason
    /\ finalizeScheduledHangup(scheduleAutomaticHangup(Cur, DefaultReason))
           .hangupTimeout.armed

(* C39: once the hangup timer is armed, a further audio-done neither
   re-arms nor postpones it (the timer is left as it is: no clearTimeout,
   no setTimeout); a new end_conversation tool call received before it
   fires cancels it without stopping the session, and the hangup is armed
   again, with the new reason, only by the next audio-done. *)
C39_AudioDoneKeepsTimer ==
    (Receives /\ hangupTimeout.armed) =>
        LET r == OnAudioDone(Cur)
        IN  /\ r.hangupTimeout = hangupTimeout
            /\ r.orphanTimers = orphanTimers
            /\ r.pendingHangupReason = NULL
            /\ Ops(r) \cap {"setTimeout", "clearTimeout"} = {}

C39_NewCallCancels ==
    (Receives /\ hangupTimeout.armed) =>
        \A callId \in CallIds \cup {NULL}, arguments \in {None, Some(ValidArgs)} :
            LET r == OnFunctionCallArgumentsDone(Cur, "end_conversation",
                                                 callId, arguments)
                q == OnAudioDone(Settled(r))
            IN  /\ ~r.hangupTimeout.armed /\ r.orphanTimers = {}
                /\ "clearTimeout" \in Ops(r) /\ "setTimeout" \notin Ops(r)
                /\ r.pendingHangupReason # NULL
                /\ r.isActive = isActive /\ r.socket = socket
                /\ q.hangupTimeout.armed
                /\ q.hangupTimeout.reason = r.pendingHangupReason
                /\ q.pendingHangupReason = NULL
                /\ "setTimeout" \in Ops(q)

C39_ArmedTimer == C39_AudioDoneKeepsTimer /\ C39_NewCallCancels

C39_Witness ==
    /\ Receives /\ isActive /\ hangupTimeout.armed
    /\ hangupTimeout.reason = DefaultReason
    /\ OnAudioDone(Cur).hangupTimeout = hangupTimeout
    /\ OnFunctionCallArgumentsDone(Cur, "end_conversation", NULL,
                                   Some(ValidArgs)).pendingHangupReason = "bye"

(* C40: in every reachable state a session marked active holds a signaling
   socket and is not marked connecting at the same time. *)
C40_ActiveHoldsSocket ==
    isActive => (socket # "none" /\ ~isConnecting)

====
